---- MODULE Spec2Model ----
(***************************************************************************)
(* Verification model of the graph construction engine of caseploeg/graph. *)
(*                                                                         *)
(*   JsonFileIngestor   codebase_rag/services/json_service.py              *)
(*   CallProcessor      codebase_rag/parsers/call_processor.py             *)
(*   NodeTextExtractor  codebase_rag/node_text_extractor.py                *)
(*   FileEnumerator     codebase_rag/utils/file_enumerator.py              *)
(*   batch processor    batch/batch_processor.py                           *)
(*   AsyncBatchExecutor batch/command_executor/executor_async.py, cache.py *)
(*   validate_command   batch/command_executor/allowlist.py                *)
(*   GitHubCloner       batch/github_cloner.py                             *)
(*                                                                         *)
(* Python strings are modelled as sequences of code points, so that string *)
(* concatenation (\o), equality and the lexicographic order used by        *)
(* sorted() are the ones Python computes.                                  *)
(***************************************************************************)
EXTENDS Integers, Sequences, FiniteSets, TLC

VARIABLES
    nodes,            \* JsonFileIngestor._nodes: dict in insertion order
    relationships,    \* JsonFileIngestor._relationships: list
    node_counter,     \* JsonFileIngestor._node_counter
    node_id_lookup,   \* JsonFileIngestor._node_id_lookup: dict
    out,              \* the export written by flush_all
    raised,           \* TRUE once a call has propagated an exception
    issued,           \* the ensure_node_batch calls made so far, in order
    buffered_early,   \* TRUE once a relationship was buffered ahead of an endpoint
    lock,             \* JsonFileIngestor._lock: its holder, or NoOwner
    pc,               \* per worker thread: position in ensure_node_batch
    frame,            \* per worker thread: locals of ensure_node_batch
    tree,             \* CallProcessor: the parsed file (root_node and its descendants)
    contexts,         \* CallProcessor: dict (start_byte, end_byte) -> CallContext
    all_calls,        \* CallProcessor: the captured call expressions
    call_index,       \* CallProcessor: position of the attribution loop in all_calls
    call_pc,          \* CallProcessor: position in process_calls_in_file
    file_inside_repo, \* CallProcessor: file_path lies under self.repo_path
    last_result,      \* CallProcessor: how the last process_calls_in_file call ended
    files_done,       \* CallProcessor: process_calls_in_file calls that have ended
    graph,            \* NodeTextExtractor: the graph its GraphLoader holds
    disk,             \* the files under repo_base_path, as far as they were looked at
    file_cache,       \* NodeTextExtractor._file_cache: dict
    extraction,       \* NodeTextExtractor: the last extract / extract_batch call and its outcome
    disk_reads,       \* per absolute path: the times an extraction went to the disk for it
    repo_entries,             \* the entries now on disk under FileEnumerator.repo_path
    cached_directories, \* FileEnumerator._directories
    cached_files,     \* FileEnumerator._files
    enumerated,       \* FileEnumerator._enumerated
    enumerate_calls,  \* enumerate calls made so far
    walks,            \* rglob traversals started so far
    completions,      \* enumerate calls that have returned
    last_read,        \* the last read of .directories / .files and its outcome
    graph_files,      \* batch output_dir: dict file name -> the repository whose graph it holds
    process_results,  \* the ProcessResults returned by process_single_repo, in call order
    command_cache,    \* CommandCache: the command_cache table, dict cache_key -> return_code stored
    concurrency,      \* AsyncBatchExecutor.concurrency
    permits,          \* AsyncBatchExecutor._semaphore: free permits
    tasks,            \* AsyncBatchExecutor.run: the tasks of the current batch
    batch_result,     \* AsyncBatchExecutor.run: the BatchResult returned for the current batch
    batches_run,      \* run calls that have returned
    executed_earlier, \* the cache keys of commands the runner executed in earlier batches
    given_command,    \* validate_command: the command handed in
    validation,       \* validate_command: the ValidationResult returned
    processed_call,   \* CallProcessor: the call _process_single_call was given, once it returned
    line_request,     \* _extract_lines: the content and line numbers handed in
    returned_chunk,   \* _extract_lines: the text returned
    flush_pc,         \* flush_all: position of the call in progress
    flush_frame,      \* flush_all: locals of the call in progress
    clone_state,      \* GitHubCloner.state: completed, failed, in_progress
    cloned,           \* the local paths under clone_dir that hold a .git directory
    max_retries,      \* GitHubCloner.max_retries
    clone_frame,      \* clone_repo: locals of the call in progress or last made
    clone_result,     \* clone_repo: how the last call ended
    clone_calls       \* clone_repo calls made

ingestorVars == <<nodes, relationships, node_counter, node_id_lookup, out, raised, issued, buffered_early>>
workerVars == <<lock, pc, frame>>
callVars == <<tree, contexts, all_calls, call_index, call_pc>>
fileVars == <<file_inside_repo, last_result, files_done>>
extractorVars == <<graph, disk, file_cache, extraction, disk_reads>>
enumeratorVars == <<repo_entries, cached_directories, cached_files, enumerated, enumerate_calls, walks, completions, last_read>>
batchVars == <<graph_files, process_results>>
executorVars == <<command_cache, concurrency, permits, tasks, batch_result, batches_run, executed_earlier>>
validatorVars == <<given_command, validation>>
singleCallVars == <<processed_call>>
linesVars == <<line_request, returned_chunk>>
flushVars == <<flush_pc, flush_frame>>
clonerVars == <<clone_state, cloned, max_retries, clone_frame, clone_result, clone_calls>>
vars == <<nodes, relationships, node_counter, node_id_lookup, out, raised, issued, buffered_early,
          lock, pc, frame, tree, contexts, all_calls, call_index, call_pc,
          file_inside_repo, last_result, files_done,
          graph, disk, file_cache, extraction, disk_reads,
          repo_entries, cached_directories, cached_files, enumerated, enumerate_calls, walks, completions, last_read,
          graph_files, process_results,
          command_cache, concurrency, permits, tasks, batch_result, batches_run, executed_earlier,
          given_command, validation,
          processed_call,
          line_request, returned_chunk,
          flush_pc, flush_frame,
          clone_state, cloned, max_retries, clone_frame, clone_result, clone_calls>>

\* The state outside the ingestor, which no ingestor step touches.
outsideIngestor == <<callVars, fileVars, extractorVars, enumeratorVars, batchVars, executorVars, validatorVars, singleCallVars, linesVars, flushVars, clonerVars>>

\* The state outside the call processor, which no call-processor step touches.
outsideCalls == <<ingestorVars, workerVars, extractorVars, enumeratorVars, batchVars, executorVars, validatorVars, singleCallVars, linesVars, flushVars, clonerVars>>

\* The state outside the text extractor, which no extraction touches.
outsideExtractor == <<ingestorVars, workerVars, callVars, fileVars, enumeratorVars, batchVars, executorVars, validatorVars, singleCallVars, linesVars, flushVars, clonerVars>>

\* The state outside the file enumerator, which no enumerator step touches.
outsideEnumerator == <<ingestorVars, workerVars, callVars, fileVars, extractorVars, batchVars, executorVars, validatorVars, singleCallVars, linesVars, flushVars, clonerVars>>

\* The state outside the batch processor, which no batch step touches.
outsideBatch == <<ingestorVars, workerVars, callVars, fileVars, extractorVars, enumeratorVars, executorVars, validatorVars, singleCallVars, linesVars, flushVars, clonerVars>>

\* The state outside the command executor, which no executor step touches.
outsideExecutor == <<ingestorVars, workerVars, callVars, fileVars, extractorVars, enumeratorVars, batchVars, validatorVars, singleCallVars, linesVars, flushVars, clonerVars>>

\* The state outside the command allowlist, which no validation touches.
outsideValidator == <<ingestorVars, workerVars, callVars, fileVars, extractorVars, enumeratorVars, batchVars, executorVars, singleCallVars, linesVars, flushVars, clonerVars>>

\* The state outside the resolution of one call but for the ingestor, whose buffer it appends to.
outsideSingleCall == <<callVars, fileVars, extractorVars, enumeratorVars, batchVars, executorVars, validatorVars, linesVars, flushVars, clonerVars>>

\* The state outside _extract_lines, which it does not touch.
outsideLines == <<ingestorVars, workerVars, callVars, fileVars, extractorVars, enumeratorVars, batchVars, executorVars, validatorVars, singleCallVars, flushVars, clonerVars>>

\* The state outside flush_all but for the ingestor and its workers.
outsideFlush == <<callVars, fileVars, extractorVars, enumeratorVars, batchVars, executorVars, validatorVars, singleCallVars, linesVars, clonerVars>>

\* what clone_repo leaves alone
outsideCloner == <<ingestorVars, workerVars, callVars, fileVars, extractorVars, enumeratorVars, batchVars, executorVars, validatorVars, singleCallVars, linesVars, flushVars>>

---------------------------------------------------------------------------
(* Bounds *)

\* ensure_* calls made on one ingestor before the flush
MaxCalls == 4
\* syntax-tree nodes of a parsed file, the root included
MaxTreeNodes == 4
\* files handed to one CallProcessor
MaxFiles == 2
\* nodes of the graph a NodeTextExtractor reads
MaxGraphNodes == 3
\* enumerate calls made on one FileEnumerator
MaxEnumerateCalls == 3
\* repositories processed into one output directory
MaxRepos == 3
\* commands in one batch of the executor
MaxBatchCommands == 2
\* batches run on one executor
MaxBatches == 2
\* times one extractor goes to the disk for the same path
MaxReads == 2
\* largest line number, of either sign, a node carries
MaxLine == 4
\* ensure_* calls made on an ingestor whose flush_all runs next to them
MaxRaceCalls == 3
MaxRetries == 2
MaxCloneCalls == 2
\* words of a command handed to validate_command
MaxWords == 3

---------------------------------------------------------------------------
(* Strings *)

s_Function == <<70, 117, 110, 99, 116, 105, 111, 110>>
s_Method == <<77, 101, 116, 104, 111, 100>>
s_Class == <<67, 108, 97, 115, 115>>
s_Interface == <<73, 110, 116, 101, 114, 102, 97, 99, 101>>
s_Enum == <<69, 110, 117, 109>>
s_Type == <<84, 121, 112, 101>>
s_Union == <<85, 110, 105, 111, 110>>
s_Module == <<77, 111, 100, 117, 108, 101>>
s_File == <<70, 105, 108, 101>>
s_Project == <<80, 114, 111, 106, 101, 99, 116>>
s_Package == <<80, 97, 99, 107, 97, 103, 101>>
s_Folder == <<70, 111, 108, 100, 101, 114>>
s_ExternalPackage == <<69, 120, 116, 101, 114, 110, 97, 108, 80, 97, 99, 107, 97, 103, 101>>
s_Widget == <<87, 105, 100, 103, 101, 116>>
s_Colon == <<58>>
s_None == <<78, 111, 110, 101>>
s_Empty == <<>>
s_a == <<97>>
s_b == <<98>>
s_p == <<112>>
s_q == <<113>>
s_x == <<120>>
s_y == <<121>>
s_zz == <<122, 122>>
s_CALLS == <<67, 65, 76, 76, 83>>
s_DEFINES == <<68, 69, 70, 73, 78, 69, 83>>
s_DEFINES_METHOD == <<68, 69, 70, 73, 78, 69, 83, 95, 77, 69, 84, 72, 79, 68>>
s_unknown == <<117, 110, 107, 110, 111, 119, 110>>
s_NodeWithId == <<78, 111, 100, 101, 32, 119, 105, 116, 104, 32, 105, 100, 32>>
s_NotFound == <<32, 110, 111, 116, 32, 102, 111, 117, 110, 100>>
s_StructuralNodeType == <<83, 116, 114, 117, 99, 116, 117, 114, 97, 108, 32, 110, 111, 100, 101, 32, 116, 121, 112, 101, 32, 39>>
s_HasNoContent == <<39, 32, 104, 97, 115, 32, 110, 111, 32, 101, 120, 116, 114, 97, 99, 116, 97, 98, 108, 101, 32, 99, 111, 110, 116, 101, 110, 116>>
s_UnknownNodeType == <<85, 110, 107, 110, 111, 119, 110, 32, 110, 111, 100, 101, 32, 116, 121, 112, 101, 32, 39>>
s_Quote == <<39>>
s_NoModule == <<67, 111, 117, 108, 100, 32, 110, 111, 116, 32, 102, 105, 110, 100, 32, 109, 111, 100, 117, 108, 101, 47, 102, 105, 108, 101, 32, 102, 111, 114, 32, 110, 111, 100, 101>>
s_NoPathProperty == <<77, 111, 100, 117, 108, 101, 32, 110, 111, 100, 101, 32, 104, 97, 115, 32, 110, 111, 32, 112, 97, 116, 104, 32, 112, 114, 111, 112, 101, 114, 116, 121>>
s_CouldNotRead == <<67, 111, 117, 108, 100, 32, 110, 111, 116, 32, 114, 101, 97, 100, 32, 102, 105, 108, 101, 58, 32>>
s_Slash == <<47>>
s_RepoBase == <<47, 114>>
s_n == <<110>>
s_ls == <<108, 115>>
s_pwd == <<112, 119, 100>>
s_owner1 == <<111, 119, 110, 101, 114, 49>>
s_owner2 == <<111, 119, 110, 101, 114, 50>>
s_click == <<99, 108, 105, 99, 107>>
s_flask == <<102, 108, 97, 115, 107>>
s_json == <<46, 106, 115, 111, 110>>
s_dunder == <<95, 95>>
s_find == <<102, 105, 110, 100>>
s_tree == <<116, 114, 101, 101>>
s_stat == <<115, 116, 97, 116>>
s_file == <<102, 105, 108, 101>>
s_grep == <<103, 114, 101, 112>>
s_rg == <<114, 103>>
s_ag == <<97, 103>>
s_ack == <<97, 99, 107>>
s_head == <<104, 101, 97, 100>>
s_tail == <<116, 97, 105, 108>>
s_wc == <<119, 99>>
s_cat == <<99, 97, 116>>
s_git == <<103, 105, 116>>
s_less == <<108, 101, 115, 115>>
s_sort == <<115, 111, 114, 116>>
s_uniq == <<117, 110, 105, 113>>
s_cut == <<99, 117, 116>>
s_awk == <<97, 119, 107>>
s_sed == <<115, 101, 100>>
s_status == <<115, 116, 97, 116, 117, 115>>
s_log == <<108, 111, 103>>
s_diff == <<100, 105, 102, 102>>
s_show == <<115, 104, 111, 119>>
s_branch == <<98, 114, 97, 110, 99, 104>>
s_tag == <<116, 97, 103>>
s_ls_files == <<108, 115, 45, 102, 105, 108, 101, 115>>
s_ls_tree == <<108, 115, 45, 116, 114, 101, 101>>
s_rev_parse == <<114, 101, 118, 45, 112, 97, 114, 115, 101>>
s_describe == <<100, 101, 115, 99, 114, 105, 98, 101>>
s_rev_list == <<114, 101, 118, 45, 108, 105, 115, 116>>
s_cat_file == <<99, 97, 116, 45, 102, 105, 108, 101>>
s_name_rev == <<110, 97, 109, 101, 45, 114, 101, 118>>
s_shortlog == <<115, 104, 111, 114, 116, 108, 111, 103>>
s_blame == <<98, 108, 97, 109, 101>>
s_push == <<112, 117, 115, 104>>
s_no_pager == <<45, 45, 110, 111, 45, 112, 97, 103, 101, 114>>
s_dash_C == <<45, 67>>
s_dot == <<46>>
s_pipe == <<124>>
s_redirect == <<62>>
s_quoted_redirect == <<39, 62, 39>>
s_open_quote == <<39>>
s_space == <<32>>
\* the text of the two files the graphs refer to
text_p == <<97, 10, 98, 10, 99, 10>>
text_q == <<120, 10, 121>>

\* Python's str.__lt__: lexicographic order on code points.
StrLess(s, t) ==
    \E k \in 0..Len(s) :
        /\ k <= Len(t)
        /\ \A j \in 1..k : s[j] = t[j]
        /\ \/ k = Len(s) /\ k < Len(t)
           \/ k < Len(s) /\ k < Len(t) /\ s[k + 1] < t[k + 1]

---------------------------------------------------------------------------
(* Property values and property dicts *)

\* A PropertyDict entry: the key is absent, or maps to None, or to a str.
Absent == [k |-> "absent", s |-> <<>>]
NoneValue == [k |-> "none", s |-> <<>>]
Str(s) == [k |-> "str", s |-> s]

KEY_QUALIFIED_NAME == "qualified_name"
KEY_NAME == "name"
KEY_PATH == "path"

Props(qn, name, path) == [qualified_name |-> qn, name |-> name, path |-> path]

\* dict.get(key, default)
Get(properties, key, default) ==
    IF properties[key].k = "absent" THEN default ELSE properties[key]

\* f"{value}": a str renders as itself, None renders as "None".
Format(v) == IF v.k = "none" THEN s_None ELSE v.s

\* bool(value) as used by `or`: None and "" are falsy.
Truthy(v) == v.k = "str" /\ v.s # <<>>

\* {k: v for k, v in properties.items() if v is not None}
NonNull(properties) ==
    [key \in DOMAIN properties |->
        IF properties[key].k = "none" THEN Absent ELSE properties[key]]

---------------------------------------------------------------------------
(* dict, as a sequence of [key, value] entries in insertion order *)

DictHas(d, key) == \E i \in 1..Len(d) : d[i].key = key

DictIndex(d, key) == CHOOSE i \in 1..Len(d) : d[i].key = key

DictSet(d, key, value) ==
    IF DictHas(d, key)
    THEN [d EXCEPT ![DictIndex(d, key)] = [key |-> key, value |-> value]]
    ELSE Append(d, [key |-> key, value |-> value])

DictValues(d) == [i \in 1..Len(d) |-> d[i].value]

NoId == -1

\* self._node_id_lookup.get(key): the id, or None
LookupGet(d, key) == IF DictHas(d, key) THEN d[DictIndex(d, key)].value ELSE NoId

---------------------------------------------------------------------------
(* Node labels *)

NodeLabel ==
    { s_Function, s_Method, s_Class, s_Interface, s_Enum, s_Type, s_Union,
      s_Module, s_File, s_Project, s_Package, s_Folder, s_ExternalPackage }

PATH_BASED_LABELS == {s_Folder, s_File}
NAME_BASED_LABELS == {s_ExternalPackage, s_Project}

---------------------------------------------------------------------------
(* JsonFileIngestor *)

\* The variant without the `except ValueError` fallback.
get_node_id_key_unguarded(label, properties) ==
    IF label \notin NodeLabel
    THEN [raised |-> TRUE, key |-> <<>>]
    ELSE IF label \in PATH_BASED_LABELS
    THEN [raised |-> FALSE,
          key |-> label \o s_Colon \o Format(Get(properties, KEY_PATH, Str(s_Empty)))]
    ELSE IF label \in NAME_BASED_LABELS
    THEN [raised |-> FALSE,
          key |-> label \o s_Colon \o Format(Get(properties, KEY_NAME, Str(s_Empty)))]
    ELSE [raised |-> FALSE,
          key |-> label \o s_Colon \o Format(Get(properties, KEY_QUALIFIED_NAME, Str(s_Empty)))]

\* The variant whose key is empty when the key property is missing.
get_node_id_key_empty_when_lacking(label, properties) ==
    LET value ==
          IF label \notin NodeLabel
          THEN Get(properties, KEY_QUALIFIED_NAME, Get(properties, KEY_NAME, Absent))
          ELSE IF label \in PATH_BASED_LABELS THEN Get(properties, KEY_PATH, Absent)
          ELSE IF label \in NAME_BASED_LABELS THEN Get(properties, KEY_NAME, Absent)
          ELSE Get(properties, KEY_QUALIFIED_NAME, Absent)
    IN [raised |-> FALSE,
        key |-> IF value = Absent THEN <<>> ELSE label \o s_Colon \o Format(value)]

\* The variant that keys every recognised label on qualified_name.
get_node_id_key_uniform(label, properties) ==
    IF label \notin NodeLabel
    THEN [raised |-> FALSE,
          key |-> label \o s_Colon \o
                  Format(Get(properties, KEY_QUALIFIED_NAME,
                             Get(properties, KEY_NAME, Str(s_Empty))))]
    ELSE [raised |-> FALSE,
          key |-> label \o s_Colon \o Format(Get(properties, KEY_QUALIFIED_NAME, Str(s_Empty)))]

\* _get_node_id_key: the key string, or the exception it lets escape.
get_node_id_key(label, properties) ==
    IF label \notin NodeLabel
    THEN [raised |-> FALSE,
          key |-> label \o s_Colon \o
                  Format(Get(properties, KEY_QUALIFIED_NAME,
                             Get(properties, KEY_NAME, Str(s_Empty))))]
    ELSE IF label \in PATH_BASED_LABELS
    THEN [raised |-> FALSE,
          key |-> label \o s_Colon \o Format(Get(properties, KEY_PATH, Str(s_Empty)))]
    ELSE IF label \in NAME_BASED_LABELS
    THEN [raised |-> FALSE,
          key |-> label \o s_Colon \o Format(Get(properties, KEY_NAME, Str(s_Empty)))]
    ELSE [raised |-> FALSE,
          key |-> label \o s_Colon \o Format(Get(properties, KEY_QUALIFIED_NAME, Str(s_Empty)))]

\* The variant whose membership test never finds the key.
key_in_nodes_never(table, node_key) == FALSE

\* `node_key in self._nodes`
key_in_nodes(table, node_key) == DictHas(table, node_key)

\* The node dict stored at json_service.py:60-64.
NodeRecord(node_id, label, properties) ==
    [node_id |-> node_id, labels |-> <<label>>, properties |-> NonNull(properties)]

\* The ingestor's tables as one value, for the pure form of the handlers.
Tables(n, l, c, r) == [nodes |-> n, node_id_lookup |-> l, node_counter |-> c, raised |-> r]

\* ensure_node_batch as a function of the tables.
register_node(t, label, properties) ==
    LET r == get_node_id_key(label, properties) IN
    IF r.raised THEN [t EXCEPT !.raised = TRUE]
    ELSE IF r.key = <<>> THEN t
    ELSE IF key_in_nodes(t.nodes, r.key) THEN t
    ELSE [t EXCEPT
            !.node_counter = t.node_counter + 1,
            !.node_id_lookup = DictSet(t.node_id_lookup, r.key, t.node_counter),
            !.nodes = DictSet(t.nodes, r.key, NodeRecord(t.node_counter, label, properties))]

\* self._relationships.append(...)
buffer_relationship(buffer, rel) == Append(buffer, rel)

\* Relationship properties argument: None, or a dict.
RelNone == [k |-> "none", d |-> <<>>]
RelDict(d) == [k |-> "dict", d |-> d]

\* `dict(properties) if properties else {}`
StoredRelProps(properties) ==
    IF properties.k = "dict" /\ properties.d # <<>> THEN properties.d ELSE <<>>

\* An endpoint spec (label, property name, value).
EndpointSpec(label, property, value) == [label |-> label, property |-> property, value |-> value]

\* The dict appended at json_service.py:80-85.
RelRecord(from_spec, rel_type, to_spec, properties) ==
    [from_key |-> from_spec.label \o s_Colon \o Format(from_spec.value),
     to_key |-> to_spec.label \o s_Colon \o Format(to_spec.value),
     type |-> rel_type,
     properties |-> StoredRelProps(properties)]

\* The node sort key of flush_all (json_service.py:93-98).
NodeSortKey(n) ==
    LET qn == Get(n.properties, "qualified_name", Str(s_Empty))
        name == Get(n.properties, "name", Str(s_Empty))
        path == Get(n.properties, "path", Str(s_Empty))
    IN [label |-> n.labels[1],
        text |-> IF Truthy(qn) THEN qn.s ELSE IF Truthy(name) THEN name.s ELSE path.s]

NodeKeyLess(a, b) ==
    \/ StrLess(a.label, b.label)
    \/ a.label = b.label /\ StrLess(a.text, b.text)

\* sorted(self._nodes.values(), key=...): a stable sort.
RECURSIVE SortNodes(_)
SortNodes(s) ==
    IF s = <<>> THEN <<>>
    ELSE LET rest == SortNodes(SubSeq(s, 1, Len(s) - 1))
             x == s[Len(s)]
             pos == Cardinality({i \in 1..Len(rest) :
                        ~NodeKeyLess(NodeSortKey(x), NodeSortKey(rest[i]))})
         IN SubSeq(rest, 1, pos) \o <<x>> \o SubSeq(rest, pos + 1, Len(rest))

\* The relationship sort key (from_id, type, to_id) of flush_all, compared as a tuple.
RelKeyLess(a, b) ==
    \/ a.from_id < b.from_id
    \/ a.from_id = b.from_id /\ StrLess(a.type, b.type)
    \/ a.from_id = b.from_id /\ a.type = b.type /\ a.to_id < b.to_id

RECURSIVE SortRelsStable(_)
SortRelsStable(s) ==
    IF s = <<>> THEN <<>>
    ELSE LET rest == SortRelsStable(SubSeq(s, 1, Len(s) - 1))
             x == s[Len(s)]
             pos == Cardinality({i \in 1..Len(rest) : ~RelKeyLess(x, rest[i])})
         IN SubSeq(rest, 1, pos) \o <<x>> \o SubSeq(rest, pos + 1, Len(rest))

\* The variant that leaves the resolved relationships in buffer order.
SortRelsSkipped(s) == s

\* resolved_relationships.sort(key=...)
SortRels(s) == SortRelsStable(s)

\* The variant that keeps a relationship when either endpoint resolves.
endpoints_resolved_either(from_id, to_id) == from_id # NoId \/ to_id # NoId

\* `from_id is not None and to_id is not None`
endpoints_resolved(from_id, to_id) == from_id # NoId /\ to_id # NoId

\* The variant that drops a relationship already resolved.
RECURSIVE resolve_relationships_unique(_, _)
resolve_relationships_unique(lookup, buffer) ==
    IF buffer = <<>> THEN <<>>
    ELSE LET rel == buffer[Len(buffer)]
             from_id == LookupGet(lookup, rel.from_key)
             to_id == LookupGet(lookup, rel.to_key)
             before == resolve_relationships_unique(lookup, SubSeq(buffer, 1, Len(buffer) - 1))
             resolved == [from_id |-> from_id, to_id |-> to_id,
                          type |-> rel.type, properties |-> rel.properties]
         IN IF endpoints_resolved(from_id, to_id)
                /\ ~\E i \in 1..Len(before) : before[i] = resolved
            THEN Append(before, resolved)
            ELSE before

\* The loop of json_service.py:101-118.
RECURSIVE resolve_relationships(_, _)
resolve_relationships(lookup, buffer) ==
    IF buffer = <<>> THEN <<>>
    ELSE LET rel == buffer[Len(buffer)]
             from_id == LookupGet(lookup, rel.from_key)
             to_id == LookupGet(lookup, rel.to_key)
             before == resolve_relationships(lookup, SubSeq(buffer, 1, Len(buffer) - 1))
         IN IF endpoints_resolved(from_id, to_id)
            THEN Append(before, [from_id |-> from_id, to_id |-> to_id,
                                 type |-> rel.type, properties |-> rel.properties])
            ELSE before

\* The graph_data written by flush_all.
flush_result(table, lookup, buffer) ==
    LET nodes_list == SortNodes(DictValues(table))
        resolved_relationships == SortRels(resolve_relationships(lookup, buffer))
    IN [written |-> TRUE,
        nodes |-> nodes_list,
        relationships |-> resolved_relationships,
        metadata |-> [total_nodes |-> Len(nodes_list),
                      total_relationships |-> Len(resolved_relationships)]]

NotWritten ==
    [written |-> FALSE, nodes |-> <<>>, relationships |-> <<>>,
     metadata |-> [total_nodes |-> 0, total_relationships |-> 0]]

---------------------------------------------------------------------------
(* Inputs *)

NodeCall(label, properties) == [label |-> label, properties |-> properties]

NodeInputs ==
    { NodeCall(s_Function, Props(Str(s_a), Str(s_x), Absent)),
      NodeCall(s_Function, Props(Str(s_a), Str(s_y), NoneValue)),
      NodeCall(s_Class, Props(Str(s_a), Str(s_x), Absent)),
      NodeCall(s_Class, Props(Absent, Str(s_x), Absent)),
      NodeCall(s_Class, Props(Absent, Str(s_y), Absent)),
      NodeCall(s_File, Props(Absent, Str(s_x), Str(s_p))),
      NodeCall(s_File, Props(Absent, Str(s_x), Str(s_q))),
      NodeCall(s_Project, Props(Absent, NoneValue, Absent)),
      NodeCall(s_Project, Props(Str(s_a), Str(s_None), Absent)),
      NodeCall(s_Widget, Props(Absent, Str(s_a), Absent)),
      NodeCall(s_Widget, Props(Str(s_a), Str(s_x), Absent)) }

RelCall(from_spec, rel_type, to_spec, properties) ==
    [from_spec |-> from_spec, rel_type |-> rel_type, to_spec |-> to_spec,
     properties |-> properties]

ep_function_a == EndpointSpec(s_Function, KEY_QUALIFIED_NAME, Str(s_a))
ep_file_p == EndpointSpec(s_File, KEY_PATH, Str(s_p))
ep_function_named_x == EndpointSpec(s_Function, KEY_NAME, Str(s_x))
ep_function_zz == EndpointSpec(s_Function, KEY_QUALIFIED_NAME, Str(s_zz))

SomeRelProps == RelDict(<<[key |-> "line", value |-> 1]>>)

RelInputs ==
    { RelCall(ep_file_p, s_DEFINES, ep_function_a, RelNone),
      RelCall(ep_file_p, s_DEFINES, ep_function_a, SomeRelProps),
      RelCall(ep_function_a, s_CALLS, ep_file_p, RelDict(<<>>)),
      RelCall(ep_function_a, s_DEFINES, ep_function_a, RelNone),
      RelCall(ep_function_a, s_CALLS, ep_function_zz, RelNone),
      RelCall(ep_function_zz, s_CALLS, ep_function_a, RelNone),
      RelCall(ep_function_named_x, s_CALLS, ep_function_a, RelNone) }

---------------------------------------------------------------------------
(* Worker threads *)

Workers == {"w1", "w2"}
NoOwner == "none"
NoFrame == [label |-> <<>>, properties |-> Props(Absent, Absent, Absent),
            node_key |-> <<>>, node_id |-> NoId]

---------------------------------------------------------------------------
(* NodeTextExtractor                                                         *)
(*                                                                           *)
(* The loaded graph is a containment chain of nodes 1 .. MaxGraphNodes: node *)
(* i > 1 has one inbound relationship, from node i - 1, and a malformed      *)
(* graph may close the chain with a relationship from the last node to node  *)
(* 1.  The disk is observed lazily: a file's state is fixed the first time   *)
(* an extraction looks at its path and never changes afterwards.             *)

LABELS_WITH_LINE_INFO == {s_Function, s_Method, s_Class, s_Interface, s_Enum, s_Type, s_Union}
LABELS_WITH_PATH == {s_Module, s_File}
LABELS_STRUCTURAL == {s_Project, s_Package, s_Folder, s_ExternalPackage}

\* an int property value or result field
IntValue(n) == [k |-> "int", s |-> <<n>>]

\* f"{n}" for an int n >= 0
RECURSIVE Decimal(_)
Decimal(n) == IF n < 10 THEN <<48 + n>> ELSE Decimal(n \div 10) \o <<48 + (n % 10)>>

\* get_node_by_id returns None for an id the graph does not hold
NoNode == 0

\* One node of the chain: its labels, the type of its inbound relationship
\* and its path property.
Shape(labels, via, path) == [labels |-> labels, via |-> via, path |-> path]

\* the nodes a chain can start with
TopShapes ==
    { Shape(<<s_Module>>, s_DEFINES, Str(s_p)),
      Shape(<<s_Module>>, s_DEFINES, Absent),
      Shape(<<s_File>>, s_DEFINES, Str(s_q)),
      Shape(<<s_Project>>, s_DEFINES, Absent),
      Shape(<<s_Widget>>, s_DEFINES, Absent),
      Shape(<<s_Enum>>, s_DEFINES, Absent),
      Shape(<<s_Type>>, s_DEFINES, Absent),
      Shape(<<s_Union>>, s_DEFINES, Absent),
      Shape(<<s_Function>>, s_DEFINES, Absent) }

\* the nodes a chain can continue with
InnerShapes ==
    { Shape(<<s_Function>>, s_DEFINES, Absent),
      Shape(<<s_Class>>, s_DEFINES, Absent),
      Shape(<<s_Method>>, s_DEFINES_METHOD, Absent),
      Shape(<<s_Interface>>, s_DEFINES, Absent) }

\* A chain is closed only over a first node the walk leaves through its
\* inbound relationship.
Graphs ==
    {g \in [shape : {f \in [1..MaxGraphNodes -> TopShapes \cup InnerShapes] :
                        /\ f[1] \in TopShapes
                        /\ \A i \in 2..MaxGraphNodes : f[i] \in InnerShapes},
            closed : BOOLEAN] :
        g.closed => g.shape[1].labels = <<s_Function>>}

\* no extractor has been constructed
NoGraph == [shape |-> <<>>, closed |-> FALSE]

LastNode(g) == Cardinality(DOMAIN g.shape)

get_node_by_id(g, node_id) == IF node_id \in DOMAIN g.shape THEN node_id ELSE NoNode

node_labels(g, node) == g.shape[node].labels

node_properties(g, node) ==
    [qualified_name |-> Str(s_n \o Decimal(node)),
     path |-> g.shape[node].path,
     start_line |-> IntValue(node),
     end_line |-> IntValue(node + 1)]

get_incoming_relationships(g, node_id) ==
    IF node_id > 1
    THEN <<[type |-> g.shape[node_id].via, from_id |-> node_id - 1]>>
    ELSE IF g.closed
         THEN <<[type |-> g.shape[node_id].via, from_id |-> LastNode(g)]>>
         ELSE <<>>

\* set(node.labels)
LabelSet(labels) == {labels[i] : i \in 1..Len(labels)}

get_node_category_unstructured(labels) ==
    IF LabelSet(labels) \cap LABELS_WITH_LINE_INFO # {} THEN "code"
    ELSE IF LabelSet(labels) \cap LABELS_WITH_PATH # {} THEN "file"
    ELSE "unknown"

get_node_category(labels) ==
    IF LabelSet(labels) \cap LABELS_WITH_LINE_INFO # {} THEN "code"
    ELSE IF LabelSet(labels) \cap LABELS_WITH_PATH # {} THEN "file"
    ELSE IF LabelSet(labels) \cap LABELS_STRUCTURAL # {} THEN "structural"
    ELSE "unknown"

find_parent_via_relationship(g, node_id, rel_type) ==
    LET incoming == get_incoming_relationships(g, node_id)
        matching == {i \in 1..Len(incoming) : incoming[i].type = rel_type}
    IN  IF matching = {}
        THEN NoNode
        ELSE get_node_by_id(g, incoming[CHOOSE i \in matching : \A j \in matching : i <= j].from_id)

\* The outcome of the containment walk: the module found (or NoNode), or the
\* exception it raised.
Walk(exception, node) == [raised |-> exception, node |-> node]

\* A walk that has made more recursive calls than the graph has nodes is on
\* a cycle and recurses until the interpreter raises RecursionError.
recursion_exhausted(g, depth) == depth > LastNode(g)

\* The variant that follows a parent from every code label.
walked_labels_every_code_label ==
    {s_Method, s_Function, s_Class, s_Interface, s_Enum, s_Type, s_Union}

\* the labels from which _find_module_for_node follows a parent
walked_labels == {s_Method, s_Function, s_Class}

find_module_for_node_one_step(g, node, depth) ==
    LET labels == LabelSet(node_labels(g, node))
        rel_type == IF s_Method \in labels THEN s_DEFINES_METHOD ELSE s_DEFINES
        parent == find_parent_via_relationship(g, node, rel_type)
    IN  IF labels \cap LABELS_WITH_PATH # {} THEN Walk("none", node)
        ELSE IF labels \cap walked_labels # {}
             THEN IF parent = NoNode \/ LabelSet(node_labels(g, parent)) \cap LABELS_WITH_PATH = {}
                  THEN Walk("none", NoNode)
                  ELSE Walk("none", parent)
             ELSE Walk("none", NoNode)

RECURSIVE find_module_for_node(_, _, _)
find_module_for_node(g, node, depth) ==
    LET labels == LabelSet(node_labels(g, node))
        rel_type == IF s_Method \in labels THEN s_DEFINES_METHOD ELSE s_DEFINES
        parent == find_parent_via_relationship(g, node, rel_type)
    IN  IF recursion_exhausted(g, depth) THEN Walk("RecursionError", NoNode)
        ELSE IF labels \cap LABELS_WITH_PATH # {} THEN Walk("none", node)
        ELSE IF labels \cap walked_labels # {}
             THEN IF parent = NoNode
                  THEN Walk("none", NoNode)
                  ELSE find_module_for_node(g, parent, depth + 1)
             ELSE Walk("none", NoNode)

\* the directory the extractor resolves path properties against
repo_base_path == s_RepoBase

get_file_path(g, module_node) ==
    LET rel_path == node_properties(g, module_node).path
    IN  IF rel_path.k \in {"absent", "none"}
        THEN NoneValue
        ELSE Str(repo_base_path \o s_Slash \o rel_path.s)

\* File states on disk: not yet looked at, missing, present but not readable
\* as UTF-8 text (a directory, no permission, undecodable bytes), or its text.
Unobserved == [k |-> "unobserved", s |-> <<>>]
Missing == [k |-> "missing", s |-> <<>>]
Unreadable == [k |-> "unreadable", s |-> <<>>]

AbsPaths == {repo_base_path \o s_Slash \o s_p, repo_base_path \o s_Slash \o s_q}

TextOf(file_path) == IF file_path = repo_base_path \o s_Slash \o s_p THEN text_p ELSE text_q

FileStates(file_path) == {Missing, Unreadable, Str(TextOf(file_path))}

NoDisk == [file_path \in AbsPaths |-> Unobserved]

\* The disks that agree with d on what was observed and fix the state of the
\* unobserved paths in looked_at.
Disks(d, looked_at) ==
    LET fresh == {file_path \in looked_at : d[file_path] = Unobserved}
        choices == {c \in [fresh -> {Missing, Unreadable, Str(text_p), Str(text_q)}] :
                       \A file_path \in fresh : c[file_path] \in FileStates(file_path)}
    IN  {[file_path \in AbsPaths |-> IF file_path \in fresh THEN c[file_path] ELSE d[file_path]] :
            c \in choices}

\* The outcome of _read_file: the content (or None), the cache it leaves,
\* the paths it looked at on disk, or the exception read_text raised.
ReadOutcome(exception, content, cache, touched) ==
    [raised |-> exception, content |-> content, file_cache |-> cache, touched |-> touched]

read_file(d, cache, file_path) ==
    IF DictHas(cache, file_path)
    THEN ReadOutcome("none", cache[DictIndex(cache, file_path)].value, cache, {})
    ELSE IF d[file_path] = Missing
         THEN ReadOutcome("none", NoneValue, DictSet(cache, file_path, NoneValue), {file_path})
         ELSE IF d[file_path] = Unreadable
              THEN ReadOutcome("OSError", NoneValue, cache, {file_path})
              ELSE ReadOutcome("none", d[file_path], DictSet(cache, file_path, d[file_path]), {file_path})

LF == 10

\* str.splitlines for text whose only line boundary is "\n"
RECURSIVE splitlines(_)
splitlines(text) ==
    LET breaks == {i \in 1..Len(text) : text[i] = LF}
        first == CHOOSE i \in breaks : \A j \in breaks : i <= j
    IN  IF text = <<>> THEN <<>>
        ELSE IF breaks = {} THEN <<text>>
        ELSE <<SubSeq(text, 1, first - 1)>> \o splitlines(SubSeq(text, first + 1, Len(text)))

\* "\n".join(lines)
RECURSIVE join_lines(_)
join_lines(lines) ==
    IF lines = <<>> THEN <<>>
    ELSE IF Len(lines) = 1 THEN lines[1]
    ELSE lines[1] \o <<LF>> \o join_lines(Tail(lines))

Max(a, b) == IF a >= b THEN a ELSE b
Min(a, b) == IF a <= b THEN a ELSE b

\* lines[start_idx:end_idx] for start_idx >= 0; a negative end_idx counts
\* from the end of the list.
Slice(lines, start_idx, end_idx) ==
    LET stop == IF end_idx < 0 THEN Max(0, Len(lines) + end_idx) ELSE Min(end_idx, Len(lines))
    IN  SubSeq(lines, start_idx + 1, stop)

extract_lines(content, start_line, end_line) ==
    LET lines == splitlines(content)
        start_idx == Max(0, start_line - 1)
        end_idx == Min(Len(lines), end_line)
    IN  join_lines(Slice(lines, start_idx, end_idx))

NodeTextResult(node_id, qualified_name, file_path, start_line, end_line, code_chunk, file_content, error) ==
    [node_id |-> node_id, qualified_name |-> qualified_name, file_path |-> file_path,
     start_line |-> start_line, end_line |-> end_line, code_chunk |-> code_chunk,
     file_content |-> file_content, error |-> error]

\* no NodeTextResult: the call raised
NoResult == NodeTextResult(NoNode, NoneValue, NoneValue, NoneValue, NoneValue, NoneValue, NoneValue, NoneValue)

ErrorResult(node_id, qualified_name, file_path, error) ==
    NodeTextResult(node_id, qualified_name, file_path, NoneValue, NoneValue, NoneValue, NoneValue, Str(error))

\* The outcome of extract: the result returned or the exception raised, the
\* cache it leaves and the paths it looked at on disk.
ExtractOutcome(exception, result, cache, touched) ==
    [raised |-> exception, result |-> result, file_cache |-> cache, touched |-> touched]

\* node.labels[0] if node.labels else "unknown"
node_type(labels) == IF labels # <<>> THEN labels[1] ELSE s_unknown

extract(g, d, cache, node_id) ==
    LET node == get_node_by_id(g, node_id)
        properties == node_properties(g, node)
        qn_str == IF properties.qualified_name.k = "str" THEN properties.qualified_name ELSE NoneValue
        category == get_node_category(node_labels(g, node))
        walk == find_module_for_node(g, node, 0)
        file_path == get_file_path(g, walk.node)
        read == read_file(d, cache, file_path.s)
        start_line == properties.start_line
        end_line == properties.end_line
    IN  IF node = NoNode
        THEN ExtractOutcome("none",
                 ErrorResult(node_id, NoneValue, NoneValue, s_NodeWithId \o Decimal(node_id) \o s_NotFound),
                 cache, {})
        ELSE IF category = "structural"
        THEN ExtractOutcome("none",
                 ErrorResult(node_id, qn_str, NoneValue,
                             s_StructuralNodeType \o node_type(node_labels(g, node)) \o s_HasNoContent),
                 cache, {})
        ELSE IF category = "unknown"
        THEN ExtractOutcome("none",
                 ErrorResult(node_id, qn_str, NoneValue,
                             s_UnknownNodeType \o node_type(node_labels(g, node)) \o s_Quote),
                 cache, {})
        ELSE IF walk.raised # "none"
        THEN ExtractOutcome(walk.raised, NoResult, cache, {})
        ELSE IF walk.node = NoNode
        THEN ExtractOutcome("none", ErrorResult(node_id, qn_str, NoneValue, s_NoModule), cache, {})
        ELSE IF file_path = NoneValue
        THEN ExtractOutcome("none", ErrorResult(node_id, qn_str, NoneValue, s_NoPathProperty), cache, {})
        ELSE IF read.raised # "none"
        THEN ExtractOutcome(read.raised, NoResult, read.file_cache, read.touched)
        ELSE IF read.content = NoneValue
        THEN ExtractOutcome("none",
                 ErrorResult(node_id, qn_str, file_path, s_CouldNotRead \o file_path.s),
                 read.file_cache, read.touched)
        ELSE IF category = "file"
        THEN ExtractOutcome("none",
                 NodeTextResult(node_id, qn_str, file_path, IntValue(1), IntValue(Len(splitlines(read.content.s))),
                                read.content, read.content, NoneValue),
                 read.file_cache, read.touched)
        ELSE ExtractOutcome("none",
                 NodeTextResult(node_id, qn_str, file_path, start_line, end_line,
                                Str(extract_lines(read.content.s, start_line.s[1], end_line.s[1])),
                                read.content, NoneValue),
                 read.file_cache, read.touched)

\* The outcome of extract_batch: the dict of results (or the exception that
\* ended the comprehension), the cache it leaves, the paths it looked at.
BatchOutcome(exception, results, cache, touched) ==
    [raised |-> exception, results |-> results, file_cache |-> cache, touched |-> touched]

RECURSIVE extract_batch_from(_, _, _, _, _, _)
extract_batch_from(g, d, cache, node_ids, results, touched) ==
    LET one == extract(g, d, cache, Head(node_ids))
    IN  IF node_ids = <<>> THEN BatchOutcome("none", results, cache, touched)
        ELSE IF one.raised # "none"
        THEN BatchOutcome(one.raised, <<>>, one.file_cache, touched \cup one.touched)
        ELSE extract_batch_from(g, d, one.file_cache, Tail(node_ids),
                                DictSet(results, Head(node_ids), one.result),
                                touched \cup one.touched)

extract_batch(g, d, cache, node_ids) == extract_batch_from(g, d, cache, node_ids, <<>>, {})

\* the ids callers ask for: every node of the graph and one id it lacks
NodeIds == 1..(MaxGraphNodes + 1)

\* the id lists handed to extract_batch: two ids, equal or not
BatchInputs == {<<a, b>> : a \in NodeIds, b \in NodeIds}

EveryFileMissing == [file_path \in AbsPaths |-> Missing]

\* the paths an extraction of node_ids looks at when nothing is cached
LooksAt(g, node_ids) ==
    UNION {extract(g, EveryFileMissing, <<>>, node_ids[i]).touched : i \in 1..Len(node_ids)}

\* the last call made on the extractor
Extraction(kind, node_ids, exception, results, touched) ==
    [kind |-> kind, node_ids |-> node_ids, raised |-> exception, results |-> results, touched |-> touched]

NoExtraction == Extraction("none", <<>>, "none", <<>>, {})

\* no path has been looked at on disk
NoReads == [file_path \in AbsPaths |-> 0]

\* the reads after an extraction that went to the disk for the paths in touched
count_reads(reads, touched) ==
    [file_path \in AbsPaths |-> IF file_path \in touched THEN reads[file_path] + 1 ELSE reads[file_path]]

ExtractorIdle ==
    /\ graph = NoGraph
    /\ disk = NoDisk
    /\ file_cache = <<>>
    /\ extraction = NoExtraction
    /\ disk_reads = NoReads

---------------------------------------------------------------------------
(* _extract_lines on its own *)

\* the file contents sliced: three lines with a final newline, two lines
\* without one, and the empty file
LineContents == {text_p, text_q, <<>>}

\* the start_line / end_line properties a node can carry
LineNumbers == (0 - MaxLine)..MaxLine

\* a call _extract_lines(content, start_line, end_line)
LineRequests == [content : LineContents, start_line : LineNumbers, end_line : LineNumbers]

NoLineRequest == [content |-> <<>>, start_line |-> 0, end_line |-> 0]

\* _extract_lines has not returned
NotExtracted == NoneValue

LinesIdle ==
    /\ line_request = NoLineRequest
    /\ returned_chunk = NotExtracted

---------------------------------------------------------------------------
(* FileEnumerator                                                            *)
(*                                                                           *)
(* A path under repo_path is the sequence of its parts, each part one        *)
(* character, so that StrLess is the order of pathlib.Path.                  *)

\* repo_path itself, relative to repo_path
repo_root == <<>>

\* the entries that can exist under repo_path: a directory d, a file d/f in
\* it, and an entry s that is neither a directory nor a regular file
entry_d == <<100>>
entry_d_f == <<100, 102>>
entry_s == <<115>>
Entries == {entry_d, entry_d_f, entry_s}

is_dir(path) == path = entry_d
is_file(path) == path = entry_d_f

\* the states of the disk: an entry exists only inside an existing directory
Repos == {r \in SUBSET Entries : entry_d_f \in r => entry_d \in r}

\* sorted(paths)
RECURSIVE sorted_paths(_)
sorted_paths(paths) ==
    IF paths = {} THEN <<>>
    ELSE LET least == CHOOSE p \in paths : \A q \in paths : p = q \/ StrLess(p, q)
         IN  <<least>> \o sorted_paths(paths \ {least})

\* The lists enumerate computes from a walk of r, where skipped holds the
\* entries for which should_skip_path is true under the given patterns.
enumerate_walk(r, skipped) ==
    LET kept == r \ skipped
    IN  [directories |-> sorted_paths({repo_root} \cup {path \in kept : is_dir(path)}),
         files |-> sorted_paths({path \in kept : is_file(path)})]

\* The outcome of reading a property: the list returned or the exception.
ReadResult(accessor, exception, value) == [accessor |-> accessor, raised |-> exception, value |-> value]

NoRead == ReadResult("none", "none", <<>>)

directories_unguarded(is_enumerated, value) == ReadResult("directories", "none", value)

directories(is_enumerated, value) ==
    IF ~is_enumerated
    THEN ReadResult("directories", "RuntimeError", <<>>)
    ELSE ReadResult("directories", "none", value)

files(is_enumerated, value) ==
    IF ~is_enumerated
    THEN ReadResult("files", "RuntimeError", <<>>)
    ELSE ReadResult("files", "none", value)

\* FileEnumerator.__init__ on an empty repository
EnumeratorIdle ==
    /\ repo_entries = {}
    /\ cached_directories = <<>>
    /\ cached_files = <<>>
    /\ enumerated = FALSE
    /\ enumerate_calls = 0
    /\ walks = 0
    /\ completions = 0
    /\ last_read = NoRead

---------------------------------------------------------------------------
(* Batch processor *)

\* A cloned repository: repo_path.parent.name and repo_path.name.
RepoPath(owner, name) == [owner |-> owner, name |-> name]

RepoPaths == {RepoPath(owner, name) : owner \in {s_owner1, s_owner2}, name \in {s_click, s_flask}}

\* batch_processor.py:51  output_dir / f"{repo_path.name}.json"
output_file(repo_path) == repo_path.name \o s_json

ProcessResult(repo_path, output_path, success) ==
    [repo_path |-> repo_path, output_path |-> output_path, success |-> success]

BatchIdle ==
    /\ graph_files = <<>>
    /\ process_results = <<>>

---------------------------------------------------------------------------
(* AsyncBatchExecutor and CommandCache *)

CommandInput(cmd, repo) == [cmd |-> cmd, repo |-> repo]

CommandInputs == {CommandInput(cmd, s_RepoBase) : cmd \in {s_ls, s_pwd}}

\* the command lists handed to run
CommandLists == UNION {[1..n -> CommandInputs] : n \in 0..MaxBatchCommands}

\* cache.py:70-72  the digest of f"{repo}:{cmd}"; sha256 is taken to be
\* free of collisions, so the digest is modelled by the text it is taken of.
make_key(cmd, repo) == repo \o s_Colon \o cmd

CommandResult(cmd, repo, return_code, cached) ==
    [cmd |-> cmd, repo |-> repo, return_code |-> return_code, cached |-> cached]

NoCommandResult == CommandResult(<<>>, <<>>, 0, FALSE)

\* cache.py:74-92
cache_get(cache, cmd, repo) ==
    IF DictHas(cache, make_key(cmd, repo))
    THEN [hit |-> TRUE, return_code |-> cache[DictIndex(cache, make_key(cmd, repo))].value]
    ELSE [hit |-> FALSE, return_code |-> 0]

cache_set_dropped(cache, cmd, repo, result) == cache

\* cache.py:94-114  INSERT OR REPLACE
cache_set(cache, cmd, repo, result) == DictSet(cache, make_key(cmd, repo), result.return_code)

\* One task of a batch: its command, where it stands in _execute_one, the
\* result it returned, how often the runner ran for it and how often
\* on_result was called with its result.
Task(cmd_input, at, result, runs, notified) ==
    [cmd_input |-> cmd_input, at |-> at, result |-> result, runs |-> runs, notified |-> notified]

BatchResult(total_commands, executed, cached, failed) ==
    [total_commands |-> total_commands, executed |-> executed, cached |-> cached, failed |-> failed]

\* run has not returned
NoBatchResult == BatchResult(-1, -1, -1, -1)

ExecutorIdle ==
    /\ command_cache = <<>>
    /\ concurrency = 1
    /\ permits = 1
    /\ tasks = <<>>
    /\ batch_result = NoBatchResult
    /\ batches_run = 0
    /\ executed_earlier = {}

---------------------------------------------------------------------------
(* Command allowlist: validate_command *)

READONLY_ALLOWLIST ==
    {s_ls, s_find, s_tree, s_stat, s_file, s_grep, s_rg, s_ag,
     s_ack, s_head, s_tail, s_wc, s_cat, s_git}

SAFE_PIPE_SINKS ==
    {s_head, s_tail, s_wc, s_less, s_sort, s_uniq, s_grep, s_cut, s_awk, s_sed}

SAFE_GIT_SUBCOMMANDS ==
    {s_status, s_log, s_diff, s_show, s_branch, s_tag, s_ls_files, s_ls_tree,
     s_rev_parse, s_describe, s_rev_list, s_cat_file, s_name_rev, s_shortlog, s_blame}

\* The characters the patterns and the scanners look for.
Chars ==
    [backslash |-> 92, single |-> 39, double |-> 34, bar |-> 124, gt |-> 62, lt |-> 60,
     amp |-> 38, semicolon |-> 59, dollar |-> 36, paren |-> 40, backtick |-> 96, dash |-> 45]
ch_backslash == Chars.backslash
ch_single == Chars.single
ch_double == Chars.double
ch_bar == Chars.bar
ch_gt == Chars.gt
ch_lt == Chars.lt
ch_amp == Chars.amp
ch_semicolon == Chars.semicolon
ch_dollar == Chars.dollar
ch_paren == Chars.paren
ch_backtick == Chars.backtick
ch_dash == Chars.dash
Whitespace == {32, 9, 10, 13, 11, 12}
ShlexWhitespace == {32, 9, 13, 10}

\* ValidationResult; an error is the ValidationError member and the text formatted into it.
ValidationError(member, text) == [member |-> member, text |-> text]
NoError == ValidationError("None", s_Empty)
ValidationResult(is_valid, error) == [valid |-> is_valid, error |-> error]
NoValidation == ValidationResult(FALSE, ValidationError("not validated", s_Empty))
EmptyCommand == ValidationError("Empty command", s_Empty)

\* str.strip(): leading and trailing whitespace removed.
RECURSIVE lstrip(_)
lstrip(s) == IF s # <<>> /\ Head(s) \in Whitespace THEN lstrip(Tail(s)) ELSE s
RECURSIVE rstrip(_)
rstrip(s) == IF s # <<>> /\ s[Len(s)] \in Whitespace THEN rstrip(SubSeq(s, 1, Len(s) - 1)) ELSE s
strip(s) == rstrip(lstrip(s))

\* _is_outside_quotes: the loop over command[0..pos), i counted from 0 as in the code.
RECURSIVE is_outside_quotes_from(_, _, _, _, _)
is_outside_quotes_from(command, pos, i, in_single, in_double) ==
    IF i >= pos THEN ~in_single /\ ~in_double
    ELSE LET char == command[i + 1] IN
         IF char = ch_backslash /\ i + 1 < Len(command)
         THEN is_outside_quotes_from(command, pos, i + 2, in_single, in_double)
         ELSE IF char = ch_single /\ ~in_double
         THEN is_outside_quotes_from(command, pos, i + 1, ~in_single, in_double)
         ELSE IF char = ch_double /\ ~in_single
         THEN is_outside_quotes_from(command, pos, i + 1, in_single, ~in_double)
         ELSE is_outside_quotes_from(command, pos, i + 1, in_single, in_double)

is_outside_quotes(command, pos) == is_outside_quotes_from(command, pos, 0, FALSE, FALSE)

\* DANGEROUS_PATTERNS, in order: the characters a match consumes, the character that must
\* not follow it (0 for none), and the error.
DANGEROUS_PATTERNS ==
    << [chars |-> <<ch_gt>>, not_followed_by |-> 0, error |-> "REDIRECT_NOT_ALLOWED"],
       [chars |-> <<ch_lt>>, not_followed_by |-> ch_lt, error |-> "REDIRECT_NOT_ALLOWED"],
       [chars |-> <<ch_amp, ch_amp>>, not_followed_by |-> 0, error |-> "CHAIN_NOT_ALLOWED"],
       [chars |-> <<ch_bar, ch_bar>>, not_followed_by |-> 0, error |-> "CHAIN_NOT_ALLOWED"],
       [chars |-> <<ch_semicolon>>, not_followed_by |-> 0, error |-> "CHAIN_NOT_ALLOWED"],
       [chars |-> <<ch_dollar, ch_paren>>, not_followed_by |-> 0, error |-> "SUBSHELL_NOT_ALLOWED"],
       [chars |-> <<ch_backtick>>, not_followed_by |-> 0, error |-> "SUBSHELL_NOT_ALLOWED"],
       [chars |-> <<ch_amp>>, not_followed_by |-> ch_amp, error |-> "BACKGROUND_NOT_ALLOWED"] >>

\* The pattern matches at position pos (counted from 0).
matches_at(pattern, command, pos) ==
    /\ pos + Len(pattern.chars) <= Len(command)
    /\ \A k \in 1..Len(pattern.chars) : command[pos + k] = pattern.chars[k]
    /\ \/ pattern.not_followed_by = 0
       \/ pos + Len(pattern.chars) >= Len(command)
       \/ command[pos + Len(pattern.chars) + 1] # pattern.not_followed_by

\* pattern.finditer(command): the starts of the non-overlapping matches, left to right.
RECURSIVE finditer(_, _, _)
finditer(pattern, command, pos) ==
    IF pos >= Len(command) THEN <<>>
    ELSE IF matches_at(pattern, command, pos)
         THEN <<pos>> \o finditer(pattern, command, pos + Len(pattern.chars))
         ELSE finditer(pattern, command, pos + 1)

\* _check_dangerous_patterns: the error of the first pattern with a match outside quotes.
RECURSIVE check_dangerous_patterns_from(_, _)
check_dangerous_patterns_from(command, p) ==
    IF p > Len(DANGEROUS_PATTERNS) THEN NoError
    ELSE LET starts == finditer(DANGEROUS_PATTERNS[p], command, 0) IN
         IF \E k \in 1..Len(starts) : is_outside_quotes(command, starts[k])
         THEN ValidationError(DANGEROUS_PATTERNS[p].error, s_Empty)
         ELSE check_dangerous_patterns_from(command, p + 1)

check_dangerous_patterns(command) == check_dangerous_patterns_from(command, 1)

\* _split_pipeline: the loop over the characters, then the filter of empty segments.
RECURSIVE split_pipeline_from(_, _, _, _, _, _)
split_pipeline_from(command, i, in_single, in_double, current, segments) ==
    IF i >= Len(command)
    THEN IF current # <<>> THEN Append(segments, strip(current)) ELSE segments
    ELSE LET char == command[i + 1] IN
         IF char = ch_backslash /\ i + 1 < Len(command)
         THEN split_pipeline_from(command, i + 2, in_single, in_double,
                                  current \o <<char, command[i + 2]>>, segments)
         ELSE IF char = ch_single /\ ~in_double
         THEN split_pipeline_from(command, i + 1, ~in_single, in_double, Append(current, char), segments)
         ELSE IF char = ch_double /\ ~in_single
         THEN split_pipeline_from(command, i + 1, in_single, ~in_double, Append(current, char), segments)
         ELSE IF char = ch_bar /\ ~in_single /\ ~in_double
         THEN IF i + 1 < Len(command) /\ command[i + 2] = ch_bar
              THEN split_pipeline_from(command, i + 1, in_single, in_double, Append(current, char), segments)
              ELSE split_pipeline_from(command, i + 1, in_single, in_double, <<>>,
                                       Append(segments, strip(current)))
         ELSE split_pipeline_from(command, i + 1, in_single, in_double, Append(current, char), segments)

split_pipeline(command) ==
    SelectSeq(split_pipeline_from(command, 0, FALSE, FALSE, <<>>, <<>>), LAMBDA s : s # <<>>)

\* shlex.split(segment): the POSIX tokenizer with whitespace_split and no comment characters.
\* state is "ws" between words, "a" inside a word, "sq" / "dq" inside quotes, "esc" after a
\* backslash (escapedstate is the state to return to); quoted records that the token had
\* quotes, so that an empty quoted string is a token.
ShlexResult(error, parts) == [error |-> error, parts |-> parts]

RECURSIVE shlex_from(_, _, _, _, _, _, _)
shlex_from(s, i, state, escapedstate, token, quoted, parts) ==
    IF i > Len(s)
    THEN CASE state \in {"sq", "dq"} -> ShlexResult("No closing quotation", parts)
           [] state = "esc" -> ShlexResult("No escaped character", parts)
           [] state = "a" -> ShlexResult("", IF token # <<>> \/ quoted THEN Append(parts, token) ELSE parts)
           [] OTHER -> ShlexResult("", parts)
    ELSE LET nextchar == s[i] IN
         CASE state = "ws" ->
                IF nextchar \in ShlexWhitespace
                THEN shlex_from(s, i + 1, "ws", escapedstate, token, quoted, parts)
                ELSE IF nextchar = ch_backslash
                THEN shlex_from(s, i + 1, "esc", "a", token, quoted, parts)
                ELSE IF nextchar = ch_single
                THEN shlex_from(s, i + 1, "sq", escapedstate, token, TRUE, parts)
                ELSE IF nextchar = ch_double
                THEN shlex_from(s, i + 1, "dq", escapedstate, token, TRUE, parts)
                ELSE shlex_from(s, i + 1, "a", escapedstate, <<nextchar>>, quoted, parts)
           [] state = "sq" ->
                IF nextchar = ch_single
                THEN shlex_from(s, i + 1, "a", escapedstate, token, quoted, parts)
                ELSE shlex_from(s, i + 1, "sq", escapedstate, Append(token, nextchar), quoted, parts)
           [] state = "dq" ->
                IF nextchar = ch_double
                THEN shlex_from(s, i + 1, "a", escapedstate, token, quoted, parts)
                ELSE IF nextchar = ch_backslash
                THEN shlex_from(s, i + 1, "esc", "dq", token, quoted, parts)
                ELSE shlex_from(s, i + 1, "dq", escapedstate, Append(token, nextchar), quoted, parts)
           [] state = "esc" ->
                IF escapedstate = "dq" /\ nextchar # ch_backslash /\ nextchar # ch_double
                THEN shlex_from(s, i + 1, escapedstate, escapedstate,
                                token \o <<ch_backslash, nextchar>>, quoted, parts)
                ELSE shlex_from(s, i + 1, escapedstate, escapedstate, Append(token, nextchar), quoted, parts)
           [] OTHER ->
                IF nextchar \in ShlexWhitespace
                THEN shlex_from(s, i + 1, "ws", escapedstate, <<>>, FALSE,
                                IF token # <<>> \/ quoted THEN Append(parts, token) ELSE parts)
                ELSE IF nextchar = ch_single
                THEN shlex_from(s, i + 1, "sq", escapedstate, token, TRUE, parts)
                ELSE IF nextchar = ch_double
                THEN shlex_from(s, i + 1, "dq", escapedstate, token, TRUE, parts)
                ELSE IF nextchar = ch_backslash
                THEN shlex_from(s, i + 1, "esc", "a", token, quoted, parts)
                ELSE shlex_from(s, i + 1, "a", escapedstate, Append(token, nextchar), quoted, parts)

shlex_split(segment) == shlex_from(segment, 1, "ws", "ws", <<>>, FALSE, <<>>)

\* str.startswith("-")
startswith_dash(s) == s # <<>> /\ s[1] = ch_dash

\* _validate_segment
validate_segment(segment, is_first) ==
    LET split == shlex_split(segment)
        parts == split.parts
        base_cmd == parts[1]
    IN  IF split.error # "" THEN ValidationError("PARSE_ERROR", s_Empty)
        ELSE IF parts = <<>> THEN NoError
        ELSE IF is_first /\ base_cmd \notin READONLY_ALLOWLIST
        THEN ValidationError("NOT_IN_ALLOWLIST", base_cmd)
        ELSE IF ~is_first /\ base_cmd \notin SAFE_PIPE_SINKS
        THEN ValidationError("PIPE_SINK_NOT_ALLOWED", base_cmd)
        ELSE IF base_cmd = s_git /\ is_first
        THEN IF Len(parts) < 2 THEN NoError
             ELSE IF startswith_dash(parts[2]) THEN NoError
             ELSE IF parts[2] \notin SAFE_GIT_SUBCOMMANDS
             THEN ValidationError("GIT_SUBCOMMAND_NOT_ALLOWED", parts[2])
             ELSE NoError
        ELSE NoError

\* validate_command: the loop over the segments stops at the first error.
RECURSIVE validate_segments_from(_, _)
validate_segments_from(segments, i) ==
    IF i > Len(segments) THEN ValidationResult(TRUE, NoError)
    ELSE LET error == validate_segment(segments[i], i = 1) IN
         IF error # NoError THEN ValidationResult(FALSE, error)
         ELSE validate_segments_from(segments, i + 1)

validate_command(command) ==
    IF command = <<>> \/ strip(command) = <<>> THEN ValidationResult(FALSE, EmptyCommand)
    ELSE LET stripped == strip(command)
             error == check_dangerous_patterns(stripped)
             segments == split_pipeline(stripped)
         IN  IF error # NoError THEN ValidationResult(FALSE, error)
             ELSE IF segments = <<>> THEN ValidationResult(FALSE, EmptyCommand)
             ELSE validate_segments_from(segments, 1)

\* The words the commands handed to validate_command are made of, and the commands: up to
\* MaxWords words joined by single spaces.
Words ==
    {s_git, s_status, s_push, s_no_pager, s_dash_C, s_dot, s_ls, s_pipe, s_head,
     s_redirect, s_quoted_redirect, s_open_quote}

RECURSIVE join_words(_)
join_words(words) ==
    IF words = <<>> THEN <<>>
    ELSE IF Len(words) = 1 THEN words[1]
    ELSE words[1] \o s_space \o join_words(Tail(words))

WordLists == UNION {[1..n -> Words] : n \in 1..MaxWords}

ValidatorIdle ==
    /\ given_command = <<>>
    /\ validation = NoValidation

---------------------------------------------------------------------------
(* CallProcessor: resolving one attributed call                              *)
(*                                                                           *)
(* The resolver is outside this file: each of its four methods returns None  *)
(* or a (callee_type, callee_qn) pair, and any combination can occur.        *)

\* what a resolver returns when it fails: None
NoCallee == <<>>

\* the (callee_type, callee_qn) pair each resolver returns when it succeeds
java_callee == <<s_Method, s_x>>
function_callee == <<s_Function, s_y>>
builtin_callee == <<s_Function, s_zz>>
operator_callee == <<s_Function, s_p>>

\* One call node with what the resolver makes of it: the name
\* _get_call_target_name extracts (None, "" or a name), the language and
\* node type test of line 287, and the result of each resolver method.
SingleCalls ==
    [call_name : {NoneValue, Str(s_Empty), Str(s_a)},
     language_is_java : BOOLEAN,
     is_method_invocation : BOOLEAN,
     java_method_call : {NoCallee, java_callee},
     function_call : {NoCallee, function_callee},
     builtin_call : {NoCallee, builtin_callee},
     cpp_operator_call : {NoCallee, operator_callee}]

\* the caller contexts a call is attributed to
CallerContexts ==
    {[caller_type |-> s_Module, caller_qn |-> s_b],
     [caller_type |-> s_Function, caller_qn |-> s_q],
     [caller_type |-> s_Method, caller_qn |-> s_q]}

\* call_processor.py:287-297: the first resolution attempted
resolve_callee(call) ==
    IF call.language_is_java /\ call.is_method_invocation
    THEN call.java_method_call
    ELSE call.function_call

\* The variant in which a later resolver overrides an earlier one.
first_resolved_last_wins(callee_info, builtin_info, operator_info) ==
    IF operator_info # NoCallee THEN operator_info
    ELSE IF builtin_info # NoCallee THEN builtin_info
    ELSE callee_info

\* call_processor.py:299-308: the if / elif chain over the resolver results
first_resolved(callee_info, builtin_info, operator_info) ==
    IF callee_info # NoCallee THEN callee_info
    ELSE IF builtin_info # NoCallee THEN builtin_info
    ELSE IF operator_info # NoCallee THEN operator_info
    ELSE NoCallee

\* _process_single_call: the ensure_relationship_batch calls it makes, as
\* RelCalls in order.
process_single_call(call, context) ==
    LET callee == first_resolved(resolve_callee(call), call.builtin_call, call.cpp_operator_call)
    IN  IF ~Truthy(call.call_name) THEN <<>>
        ELSE IF callee = NoCallee THEN <<>>
        ELSE <<RelCall(EndpointSpec(context.caller_type, KEY_QUALIFIED_NAME, Str(context.caller_qn)),
                       s_CALLS,
                       EndpointSpec(callee[1], KEY_QUALIFIED_NAME, Str(callee[2])),
                       RelNone)>>

\* the call handed to _process_single_call and its context, once it returned
ProcessedCall(call, context) == [done |-> TRUE, call |-> call, context |-> context]

NoProcessedCall ==
    [done |-> FALSE,
     call |-> [call_name |-> NoneValue, language_is_java |-> FALSE, is_method_invocation |-> FALSE,
               java_method_call |-> NoCallee, function_call |-> NoCallee,
               builtin_call |-> NoCallee, cpp_operator_call |-> NoCallee],
     context |-> [caller_type |-> s_Module, caller_qn |-> s_Empty]]

SingleCallIdle == processed_call = NoProcessedCall

---------------------------------------------------------------------------
(* flush_all next to the worker threads: operators *)

\* the endpoints and relationships the workers register while the export is
\* being written
RaceRelInputs ==
    { RelCall(ep_file_p, s_DEFINES, ep_function_a, RelNone),
      RelCall(ep_function_a, s_CALLS, ep_function_zz, RelNone) }

\* json_service.py:101-118, one iteration of the loop over self._relationships
resolve_one(lookup, rel, resolved_relationships) ==
    LET from_id == LookupGet(lookup, rel.from_key)
        to_id == LookupGet(lookup, rel.to_key)
    IN  IF endpoints_resolved(from_id, to_id)
        THEN Append(resolved_relationships,
                    [from_id |-> from_id, to_id |-> to_id,
                     type |-> rel.type, properties |-> rel.properties])
        ELSE resolved_relationships

\* The locals of a flush_all call in progress, with what the ingestor had been
\* asked to do when the call started and when it wrote the export.
FlushFrame(nodes_list, resolved_relationships, rel_index, at_start, at_end) ==
    [nodes_list |-> nodes_list, resolved_relationships |-> resolved_relationships,
     rel_index |-> rel_index, at_start |-> at_start, at_end |-> at_end]

\* the calls made on the ingestor so far, whether a call is in progress, and
\* the ids assigned
Progress(calls, busy, counter) == [calls |-> calls, busy |-> busy, counter |-> counter]

NoProgress == Progress(0, FALSE, 0)

NoFlushFrame == FlushFrame(<<>>, <<>>, 0, NoProgress, NoProgress)

FlushIdle ==
    /\ flush_pc = "none"
    /\ flush_frame = NoFlushFrame

---------------------------------------------------------------------------
(* GitHubCloner: operators *)
(*                                                                           *)
(* The state file is written by save_state, which can fail; the clone        *)
(* directory belongs to the user, who can remove a clone between two calls.  *)
(* Callbacks passed as on_complete return normally.                          *)

s_gh == <<103, 104>>
s_o == <<111>>
s_r == <<114>>
s_s == <<115>>
s_DotGit == <<46>> \o s_git

\* the URLs handed to clone_repo: two repositories, and the first one again
\* under its .git spelling
url_r == s_gh \o s_Slash \o s_o \o s_Slash \o s_r
url_s == s_gh \o s_Slash \o s_o \o s_Slash \o s_s
url_r_git == url_r \o s_DotGit
GitHubUrls == {url_r, url_s, url_r_git}

\* github_url.rstrip("/")
RECURSIVE rstrip_slash(_)
rstrip_slash(s) ==
    IF s # <<>> /\ <<s[Len(s)]>> = s_Slash THEN rstrip_slash(SubSeq(s, 1, Len(s) - 1)) ELSE s

\* the positions of "/" in s
SlashesIn(s) == {i \in 1..Len(s) : <<s[i]>> = s_Slash}

\* s.split("/")[-1]
last_part(s) ==
    IF SlashesIn(s) = {} THEN s
    ELSE SubSeq(s, (CHOOSE i \in SlashesIn(s) : \A j \in SlashesIn(s) : j <= i) + 1, Len(s))

\* "/".join(s.split("/")[:-1])
without_last_part(s) ==
    IF SlashesIn(s) = {} THEN <<>>
    ELSE SubSeq(s, 1, (CHOOSE i \in SlashesIn(s) : \A j \in SlashesIn(s) : j <= i) - 1)

\* s.replace(".git", "")
RECURSIVE replace_dot_git(_)
replace_dot_git(s) ==
    IF Len(s) < Len(s_DotGit) THEN s
    ELSE IF SubSeq(s, 1, Len(s_DotGit)) = s_DotGit
         THEN replace_dot_git(SubSeq(s, Len(s_DotGit) + 1, Len(s)))
         ELSE <<Head(s)>> \o replace_dot_git(Tail(s))

\* get_local_path, relative to clone_dir: owner / repo
get_local_path(github_url) ==
    LET stripped == rstrip_slash(github_url)
        owner == last_part(without_last_part(stripped))
        repo == replace_dot_git(last_part(stripped))
    IN  owner \o s_Slash \o repo

LocalPaths == {get_local_path(github_url) : github_url \in GitHubUrls}

\* is_cloned: (local_path / ".git").exists()
is_cloned(on_disk, github_url) == get_local_path(github_url) \in on_disk

\* `del d[key]`
DictDel(d, key) == SelectSeq(d, LAMBDA entry : entry.key # key)

\* CloneState: completed, failed and in_progress
CloneState(completed, failed, in_progress) ==
    [completed |-> completed, failed |-> failed, in_progress |-> in_progress]

\* `github_url in self.state.completed`
in_completed(state, github_url) ==
    \E i \in 1..Len(state.completed) : state.completed[i] = github_url

\* self.state.failed.get(github_url, 0)
failed_get(state, github_url) ==
    IF DictHas(state.failed, github_url)
    THEN state.failed[DictIndex(state.failed, github_url)].value
    ELSE 0

\* github_cloner.py:218-221: the state after a clone that returned 0
record_success(state, github_url) ==
    CloneState(Append(state.completed, github_url),
               DictDel(state.failed, github_url),
               NoneValue)

\* github_cloner.py:274-275: the state after the retry loop
record_failure(state, github_url, retry_count) ==
    CloneState(state.completed,
               DictSet(state.failed, github_url, retry_count),
               NoneValue)

\* The locals of the clone_repo call in progress or last made, and the git
\* clone commands it has run.
CloneFrame(position, github_url, retry_count, attempts) ==
    [pc |-> position, github_url |-> github_url, retry_count |-> retry_count,
     attempts |-> attempts]

NoCloneFrame == CloneFrame("idle", <<>>, 0, 0)

\* How the last clone_repo call ended: with a CloneResult, or with an
\* exception.
CloneReturned(success, retry_count) ==
    [kind |-> "returned", success |-> success, retry_count |-> retry_count,
     raised |-> "none"]
CloneRaised(exception) ==
    [kind |-> "raised", success |-> FALSE, retry_count |-> 0, raised |-> exception]
NoCloneResult == [kind |-> "none", success |-> FALSE, retry_count |-> 0, raised |-> "none"]

\* What one pass through the retry loop meets: an exception before git runs
\* (rmtree, mkdir), git returning 0, git failing with a stderr that names a
\* rate limit (403), a missing repository (404), missing authentication (401)
\* or something else, the five minute timeout, with or without a partial
\* clone left behind, or an exception from subprocess.run.
AttemptOutcomes ==
    {"setup_error", "cloned", "rate_limited", "not_found", "auth_required", "failed",
     "timeout", "timeout_partial", "run_error"}

\* the outcomes after which the loop is left through `break`
PermanentFailures == {"not_found", "auth_required"}

ClonerIdle ==
    /\ clone_state = CloneState(<<>>, <<>>, NoneValue)
    /\ cloned = {}
    /\ max_retries = 0
    /\ clone_frame = NoCloneFrame
    /\ clone_result = NoCloneResult
    /\ clone_calls = 0

---------------------------------------------------------------------------
(* The ingestor with each handler as one step *)

IngestorInit ==
    /\ nodes = <<>>
    /\ relationships = <<>>
    /\ node_counter = 0
    /\ node_id_lookup = <<>>
    /\ out = NotWritten
    /\ raised = FALSE
    /\ issued = <<>>
    /\ buffered_early = FALSE
    /\ lock = NoOwner
    /\ pc = [w \in Workers |-> "idle"]
    /\ frame = [w \in Workers |-> NoFrame]

\* No file has been handed to a CallProcessor.
NoTree == [parent |-> <<>>, same |-> <<>>, kind |-> <<>>]

CallsIdle ==
    /\ tree = NoTree
    /\ contexts = <<>>
    /\ all_calls = <<>>
    /\ call_index = 0
    /\ call_pc = "none"
    /\ file_inside_repo = TRUE
    /\ last_result = "none"
    /\ files_done = 0

Init == IngestorInit /\ CallsIdle /\ ExtractorIdle /\ EnumeratorIdle /\ BatchIdle /\ ExecutorIdle /\ ValidatorIdle /\ SingleCallIdle /\ LinesIdle /\ FlushIdle /\ ClonerIdle

ensure_node_batch(label, properties) ==
    LET t == register_node(Tables(nodes, node_id_lookup, node_counter, raised),
                           label, properties)
    IN /\ nodes' = t.nodes
       /\ node_id_lookup' = t.node_id_lookup
       /\ node_counter' = t.node_counter
       /\ raised' = t.raised
       /\ issued' = Append(issued, NodeCall(label, properties))
       /\ UNCHANGED <<relationships, out, buffered_early>>
       /\ UNCHANGED workerVars
       /\ UNCHANGED outsideIngestor

ensure_relationship_batch(from_spec, rel_type, to_spec, properties) ==
    /\ relationships' = buffer_relationship(relationships,
                            RelRecord(from_spec, rel_type, to_spec, properties))
    /\ buffered_early' =
          (\/ buffered_early
           \/ ~DictHas(nodes, RelRecord(from_spec, rel_type, to_spec, properties).from_key)
           \/ ~DictHas(nodes, RelRecord(from_spec, rel_type, to_spec, properties).to_key))
    /\ UNCHANGED <<nodes, node_id_lookup, node_counter, out, raised, issued>>
    /\ UNCHANGED workerVars
    /\ UNCHANGED outsideIngestor

flush_all ==
    /\ out' = flush_result(nodes, node_id_lookup, relationships)
    /\ UNCHANGED <<nodes, node_id_lookup, node_counter, relationships, raised, issued,
                   buffered_early>>
    /\ UNCHANGED workerVars
    /\ UNCHANGED outsideIngestor

\* The file-processing phase: workers register nodes and relationships.
RegisterNode ==
    /\ ~out.written
    /\ Len(issued) + Len(relationships) < MaxCalls
    /\ \E c \in NodeInputs : ensure_node_batch(c.label, c.properties)

RegisterRelationship ==
    /\ ~out.written
    /\ Len(issued) + Len(relationships) < MaxCalls
    /\ \E c \in RelInputs :
          ensure_relationship_batch(c.from_spec, c.rel_type, c.to_spec, c.properties)

\* flush is called once, after the file-processing phase.
Flush ==
    /\ ~out.written
    /\ flush_all

Next == RegisterNode \/ RegisterRelationship \/ Flush

Spec == Init /\ [][Next]_vars

---------------------------------------------------------------------------
(* ensure_node_batch called from concurrent worker threads, statement by     *)
(* statement                                                                 *)

WorkerNodeInputs ==
    { NodeCall(s_Function, Props(Str(s_a), Str(s_x), Absent)),
      NodeCall(s_Function, Props(Str(s_a), Str(s_y), NoneValue)),
      NodeCall(s_File, Props(Absent, Str(s_x), Str(s_p))) }

\* The variant in which entering the `with` block never waits.
lock_available_always(holder) == TRUE

\* `with self._lock:` can be entered when no thread holds the lock.
lock_available(holder) == holder = NoOwner

\* json_service.py:48-50: compute the key outside the lock.
call_ensure_node_batch(w, label, properties) ==
    LET r == get_node_id_key(label, properties) IN
    /\ pc[w] = "idle"
    /\ issued' = Append(issued, NodeCall(label, properties))
    /\ IF r.raised
       THEN raised' = TRUE /\ UNCHANGED <<pc, frame>>
       ELSE /\ raised' = raised
            /\ IF r.key = <<>>
               THEN UNCHANGED <<pc, frame>>
               ELSE /\ pc' = [pc EXCEPT ![w] = "acquire"]
                    /\ frame' = [frame EXCEPT ![w] =
                           [label |-> label, properties |-> properties,
                            node_key |-> r.key, node_id |-> NoId]]
    /\ UNCHANGED <<nodes, relationships, node_counter, node_id_lookup, out,
                   buffered_early, lock>>
    /\ UNCHANGED outsideIngestor

\* json_service.py:52
acquire_lock(w) ==
    /\ pc[w] = "acquire"
    /\ lock_available(lock)
    /\ lock' = w
    /\ pc' = [pc EXCEPT ![w] = "check"]
    /\ UNCHANGED <<frame>>
    /\ UNCHANGED ingestorVars
    /\ UNCHANGED outsideIngestor

\* json_service.py:53-54
check_key(w) ==
    /\ pc[w] = "check"
    /\ IF key_in_nodes(nodes, frame[w].node_key)
       THEN /\ lock' = NoOwner
            /\ pc' = [pc EXCEPT ![w] = "idle"]
            /\ frame' = [frame EXCEPT ![w] = NoFrame]
       ELSE /\ pc' = [pc EXCEPT ![w] = "take_id"]
            /\ UNCHANGED <<lock, frame>>
    /\ UNCHANGED ingestorVars
    /\ UNCHANGED outsideIngestor

\* json_service.py:56
take_id(w) ==
    /\ pc[w] = "take_id"
    /\ frame' = [frame EXCEPT ![w].node_id = node_counter]
    /\ pc' = [pc EXCEPT ![w] = "increment"]
    /\ UNCHANGED <<lock>>
    /\ UNCHANGED ingestorVars
    /\ UNCHANGED outsideIngestor

\* json_service.py:57
increment_counter(w) ==
    /\ pc[w] = "increment"
    /\ node_counter' = node_counter + 1
    /\ pc' = [pc EXCEPT ![w] = "set_lookup"]
    /\ UNCHANGED <<nodes, relationships, node_id_lookup, out, raised, issued,
                   buffered_early, lock, frame>>
    /\ UNCHANGED outsideIngestor

\* json_service.py:58
set_lookup(w) ==
    /\ pc[w] = "set_lookup"
    /\ node_id_lookup' = DictSet(node_id_lookup, frame[w].node_key, frame[w].node_id)
    /\ pc' = [pc EXCEPT ![w] = "store"]
    /\ UNCHANGED <<nodes, relationships, node_counter, out, raised, issued,
                   buffered_early, lock, frame>>
    /\ UNCHANGED outsideIngestor

\* json_service.py:60-64, then the lock is released on leaving the block
store_node(w) ==
    /\ pc[w] = "store"
    /\ nodes' = DictSet(nodes, frame[w].node_key,
                        NodeRecord(frame[w].node_id, frame[w].label, frame[w].properties))
    /\ lock' = NoOwner
    /\ pc' = [pc EXCEPT ![w] = "idle"]
    /\ frame' = [frame EXCEPT ![w] = NoFrame]
    /\ UNCHANGED <<relationships, node_counter, node_id_lookup, out, raised, issued,
                   buffered_early>>
    /\ UNCHANGED outsideIngestor

WorkerCall ==
    /\ Len(issued) < MaxCalls
    /\ \E w \in Workers : \E c \in WorkerNodeInputs :
          call_ensure_node_batch(w, c.label, c.properties)

WorkerAcquire == \E w \in Workers : acquire_lock(w)
WorkerCheck == \E w \in Workers : check_key(w)
WorkerTakeId == \E w \in Workers : take_id(w)
WorkerIncrement == \E w \in Workers : increment_counter(w)
WorkerSetLookup == \E w \in Workers : set_lookup(w)
WorkerStore == \E w \in Workers : store_node(w)

NextWorkers ==
    \/ WorkerCall
    \/ WorkerAcquire
    \/ WorkerCheck
    \/ WorkerTakeId
    \/ WorkerIncrement
    \/ WorkerSetLookup
    \/ WorkerStore

SpecWorkers == Init /\ [][NextWorkers]_vars

---------------------------------------------------------------------------
(* flush_all next to the worker threads: flush_all takes no lock, so each of *)
(* its statements is a step of its own between the steps of the workers      *)

InitFlushRace ==
    /\ IngestorInit
    /\ CallsIdle
    /\ ExtractorIdle
    /\ EnumeratorIdle
    /\ BatchIdle
    /\ ExecutorIdle
    /\ ValidatorIdle
    /\ SingleCallIdle
    /\ LinesIdle
    /\ flush_pc = "none"
    /\ flush_frame = NoFlushFrame
    /\ ClonerIdle

\* what the ingestor has been asked to do at this moment
progress_now ==
    Progress(Len(issued) + Len(relationships), \E w \in Workers : pc[w] # "idle", node_counter)

\* A worker calls ensure_node_batch.
RaceNodeCall ==
    /\ Len(issued) + Len(relationships) < MaxRaceCalls
    /\ \E w \in Workers : \E c \in WorkerNodeInputs :
          call_ensure_node_batch(w, c.label, c.properties)

\* A worker calls ensure_relationship_batch: the append happens under the lock.
RaceRelationshipCall ==
    /\ Len(issued) + Len(relationships) < MaxRaceCalls
    /\ lock_available(lock)
    /\ \E c \in RaceRelInputs :
          ensure_relationship_batch(c.from_spec, c.rel_type, c.to_spec, c.properties)

\* json_service.py:91-99: nodes_list = sorted(self._nodes.values(), ...)
flush_snapshot ==
    /\ flush_pc = "none"
    /\ flush_pc' = "resolve"
    /\ flush_frame' = FlushFrame(SortNodes(DictValues(nodes)), <<>>, 1, progress_now, NoProgress)
    /\ UNCHANGED ingestorVars
    /\ UNCHANGED workerVars
    /\ UNCHANGED outsideFlush

\* json_service.py:101-118: one iteration of `for rel in self._relationships`
flush_resolve ==
    /\ flush_pc = "resolve"
    /\ flush_frame.rel_index <= Len(relationships)
    /\ flush_frame' =
          [flush_frame EXCEPT
              !.resolved_relationships =
                  resolve_one(node_id_lookup, relationships[flush_frame.rel_index], @),
              !.rel_index = @ + 1]
    /\ UNCHANGED flush_pc
    /\ UNCHANGED ingestorVars
    /\ UNCHANGED workerVars
    /\ UNCHANGED outsideFlush

\* json_service.py:120-135: the loop is exhausted, the relationships are
\* sorted and the export is written
flush_write ==
    /\ flush_pc = "resolve"
    /\ flush_frame.rel_index > Len(relationships)
    /\ flush_pc' = "done"
    /\ flush_frame' = [flush_frame EXCEPT !.at_end = progress_now]
    /\ out' = [written |-> TRUE,
               nodes |-> flush_frame.nodes_list,
               relationships |-> SortRels(flush_frame.resolved_relationships),
               metadata |-> [total_nodes |-> Len(flush_frame.nodes_list),
                             total_relationships |-> Len(flush_frame.resolved_relationships)]]
    /\ UNCHANGED <<nodes, relationships, node_counter, node_id_lookup, raised, issued, buffered_early>>
    /\ UNCHANGED workerVars
    /\ UNCHANGED outsideFlush

NextFlushRace ==
    \/ RaceNodeCall
    \/ RaceRelationshipCall
    \/ WorkerAcquire
    \/ WorkerCheck
    \/ WorkerTakeId
    \/ WorkerIncrement
    \/ WorkerSetLookup
    \/ WorkerStore
    \/ flush_snapshot
    \/ flush_resolve
    \/ flush_write

SpecFlushRace == InitFlushRace /\ [][NextFlushRace]_vars

---------------------------------------------------------------------------
(* CallProcessor: caller contexts and call attribution                       *)
(*                                                                           *)
(* A parsed file is a tree of nodes 1 .. MaxTreeNodes with root 1.  Each     *)
(* node has a parent, a kind (what the queries capture it as) and a flag     *)
(* telling whether it spans exactly the bytes of its parent.                 *)

TreeNodes == 1..MaxTreeNodes
RootNode == 1
NoParent == 0

NodeKinds == {"function", "method", "call", "other"}

Children(t, n) == {c \in TreeNodes : t.parent[c] = n}

\* Node.parent for every node: a parent precedes its children.
ParentMaps ==
    {p \in [TreeNodes -> 0..MaxTreeNodes] :
        /\ p[RootNode] = NoParent
        /\ \A n \in TreeNodes \ {RootNode} : p[n] \in 1..(n - 1)}

\* A node spanning its parent's bytes is that parent's only child.
SameMaps(p) ==
    {f \in [TreeNodes -> BOOLEAN] :
        /\ ~f[RootNode]
        /\ \A n \in TreeNodes \ {RootNode} :
              f[n] => {c \in TreeNodes : p[c] = p[n]} = {n}}

KindMaps ==
    {k \in [TreeNodes -> NodeKinds \cup {"module"}] :
        /\ k[RootNode] = "module"
        /\ \A n \in TreeNodes \ {RootNode} : k[n] \in NodeKinds}

Trees ==
    UNION {{[parent |-> p, same |-> f, kind |-> k] : f \in SameMaps(p), k \in KindMaps} :
             p \in ParentMaps}

\* Number of bytes a node spans.
RECURSIVE ByteLength(_, _)
RECURSIVE ByteLengthSum(_, _)
ByteLength(t, n) ==
    LET ch == Children(t, n) IN
    IF ch = {} THEN 1
    ELSE IF \E c \in ch : t.same[c] THEN ByteLengthSum(t, ch)
    ELSE 1 + ByteLengthSum(t, ch)

ByteLengthSum(t, set) ==
    IF set = {} THEN 0
    ELSE LET c == CHOOSE x \in set : TRUE
         IN ByteLength(t, c) + ByteLengthSum(t, set \ {c})

\* node.start_byte
RECURSIVE StartByte(_, _)
StartByte(t, n) ==
    IF n = RootNode THEN 0
    ELSE IF t.same[n] THEN StartByte(t, t.parent[n])
    ELSE StartByte(t, t.parent[n]) + 1
            + ByteLengthSum(t, {c \in Children(t, t.parent[n]) : c < n})

\* node.end_byte
EndByte(t, n) == StartByte(t, n) + ByteLength(t, n)

\* _node_key
node_key(t, n) == <<StartByte(t, n), EndByte(t, n)>>

CallContext(caller_node, caller_type) ==
    [caller_node |-> caller_node, caller_type |-> caller_type, call_nodes |-> <<>>]

\* The registration loops of _build_caller_contexts over the captured nodes of
\* one kind, in document order.
RECURSIVE register_contexts(_, _, _, _, _)
register_contexts(t, ctxs, n, kind, caller_type) ==
    IF n > MaxTreeNodes THEN ctxs
    ELSE register_contexts(t,
            IF t.kind[n] = kind
            THEN DictSet(ctxs, node_key(t, n), CallContext(n, caller_type))
            ELSE ctxs,
            n + 1, kind, caller_type)

\* _build_caller_contexts: the module, then the functions, then the methods.
build_caller_contexts(t) ==
    LET module == DictSet(<<>>, node_key(t, RootNode), CallContext(RootNode, s_Module))
        functions == register_contexts(t, module, 2, "function", s_Function)
    IN register_contexts(t, functions, 2, "method", s_Method)

\* captures.get(CAPTURE_CALL): the call expressions, in document order.
RECURSIVE captured_calls(_, _)
captured_calls(t, n) ==
    IF n > MaxTreeNodes THEN <<>>
    ELSE (IF t.kind[n] = "call" THEN <<n>> ELSE <<>>) \o captured_calls(t, n + 1)

NoContext == <<>>

\* The walk of _find_containing_context from a given node upward.
RECURSIVE walk_up(_, _, _)
walk_up(t, ctxs, current) ==
    IF current = NoParent THEN NoContext
    ELSE IF DictHas(ctxs, node_key(t, current)) THEN node_key(t, current)
    ELSE walk_up(t, ctxs, t.parent[current])

\* The variant that keeps walking and returns the outermost indexed ancestor.
RECURSIVE walk_up_outermost(_, _, _)
walk_up_outermost(t, ctxs, current) ==
    IF current = NoParent THEN NoContext
    ELSE IF walk_up_outermost(t, ctxs, t.parent[current]) # NoContext
    THEN walk_up_outermost(t, ctxs, t.parent[current])
    ELSE IF DictHas(ctxs, node_key(t, current)) THEN node_key(t, current)
    ELSE NoContext

\* The variant that returns the first indexed ancestor above the nearest one.
find_containing_context_outermost(t, ctxs, call_node) ==
    walk_up_outermost(t, ctxs, t.parent[call_node])

\* _find_containing_context: the key of the context found, or None.
find_containing_context(t, ctxs, call_node) == walk_up(t, ctxs, t.parent[call_node])

\* context.call_nodes.append(call_node)
append_call(ctxs, key, call_node) ==
    [ctxs EXCEPT ![DictIndex(ctxs, key)].value.call_nodes = Append(@, call_node)]

\* A parsed file is handed to process_calls_in_file.
InitCalls ==
    /\ IngestorInit
    /\ tree \in Trees
    /\ contexts = <<>>
    /\ all_calls = <<>>
    /\ call_index = 0
    /\ call_pc = "enter"
    /\ file_inside_repo \in BOOLEAN
    /\ last_result = "none"
    /\ files_done = 0
    /\ ExtractorIdle
    /\ EnumeratorIdle
    /\ BatchIdle
    /\ ExecutorIdle
    /\ ValidatorIdle
    /\ SingleCallIdle
    /\ LinesIdle
    /\ FlushIdle
    /\ ClonerIdle

\* call_processor.py:78, before the try block: Path.relative_to raises
\* ValueError when file_path is not under repo_path.
EnterFile ==
    /\ call_pc = "enter"
    /\ IF file_inside_repo
       THEN /\ call_pc' = "build"
            /\ UNCHANGED <<tree, last_result, files_done>>
       ELSE /\ call_pc' = "none"
            /\ last_result' = "propagated"
            /\ files_done' = files_done + 1
            /\ tree' = NoTree
    /\ UNCHANGED <<contexts, all_calls, call_index, file_inside_repo>>
    /\ UNCHANGED outsideCalls

\* call_processor.py:91-102
BuildContexts ==
    /\ call_pc = "build"
    /\ contexts' = build_caller_contexts(tree)
    /\ all_calls' = captured_calls(tree, 1)
    /\ call_index' = 1
    /\ call_pc' = "attribute"
    /\ UNCHANGED tree
    /\ UNCHANGED fileVars
    /\ UNCHANGED outsideCalls

\* call_processor.py:225-228, one iteration
AttributeCall ==
    /\ call_pc = "attribute"
    /\ call_index <= Len(all_calls)
    /\ LET context == find_containing_context(tree, contexts, all_calls[call_index])
       IN contexts' = IF context # NoContext
                      THEN append_call(contexts, context, all_calls[call_index])
                      ELSE contexts
    /\ call_index' = call_index + 1
    /\ UNCHANGED <<tree, all_calls, call_pc>>
    /\ UNCHANGED fileVars
    /\ UNCHANGED outsideCalls

\* call_processor.py:225, the loop is exhausted
AttributionDone ==
    /\ call_pc = "attribute"
    /\ call_index > Len(all_calls)
    /\ call_pc' = "process"
    /\ UNCHANGED <<tree, contexts, all_calls, call_index>>
    /\ UNCHANGED fileVars
    /\ UNCHANGED outsideCalls

\* The locals of process_calls_in_file are gone when the call ends.
end_of_call(result) ==
    /\ call_pc' = "none"
    /\ last_result' = result
    /\ files_done' = files_done + 1
    /\ tree' = NoTree
    /\ contexts' = <<>>
    /\ all_calls' = <<>>
    /\ call_index' = 0
    /\ UNCHANGED file_inside_repo

\* call_processor.py:109-110: an exception raised by a query, the resolver or
\* the ingestor inside the try block is caught and logged.
CatchException ==
    /\ call_pc \in {"build", "attribute", "process"}
    /\ end_of_call("caught")
    /\ UNCHANGED outsideCalls

\* process_calls_in_file returns after the calls have been processed.
ReturnFromFile ==
    /\ call_pc = "process"
    /\ end_of_call("returned")
    /\ UNCHANGED outsideCalls

\* The caller hands the next parsed file to the same CallProcessor.
NextFile ==
    /\ call_pc = "none"
    /\ files_done < MaxFiles
    /\ tree' \in Trees
    /\ file_inside_repo' \in BOOLEAN
    /\ call_pc' = "enter"
    /\ UNCHANGED <<contexts, all_calls, call_index, last_result, files_done>>
    /\ UNCHANGED outsideCalls

NextCalls ==
    \/ EnterFile
    \/ BuildContexts
    \/ AttributeCall
    \/ AttributionDone
    \/ CatchException
    \/ ReturnFromFile
    \/ NextFile

SpecCalls == InitCalls /\ [][NextCalls]_vars

---------------------------------------------------------------------------
(* _process_single_call: one step per call *)

InitSingleCall ==
    /\ IngestorInit
    /\ CallsIdle
    /\ ExtractorIdle
    /\ EnumeratorIdle
    /\ BatchIdle
    /\ ExecutorIdle
    /\ ValidatorIdle
    /\ processed_call = NoProcessedCall
    /\ LinesIdle
    /\ FlushIdle
    /\ ClonerIdle

\* _process_single_call(call_node, context, ...) on an empty ingestor: each
\* call it makes to ensure_relationship_batch appends to the buffer.
ProcessSingleCall(call, context) ==
    /\ ~processed_call.done
    /\ processed_call' = ProcessedCall(call, context)
    /\ LET calls == process_single_call(call, context)
       IN  IF calls = <<>>
           THEN UNCHANGED <<relationships, buffered_early>>
           ELSE /\ relationships' = buffer_relationship(relationships,
                                        RelRecord(calls[1].from_spec, calls[1].rel_type,
                                                  calls[1].to_spec, calls[1].properties))
                /\ buffered_early' = TRUE
    /\ UNCHANGED <<nodes, node_id_lookup, node_counter, out, raised, issued>>
    /\ UNCHANGED workerVars
    /\ UNCHANGED outsideSingleCall

ProcessCall == \E call \in SingleCalls, context \in CallerContexts : ProcessSingleCall(call, context)

NextSingleCall == ProcessCall

SpecSingleCall == InitSingleCall /\ [][NextSingleCall]_vars

---------------------------------------------------------------------------
(* _extract_lines: one step per call *)

InitLines ==
    /\ IngestorInit
    /\ CallsIdle
    /\ ExtractorIdle
    /\ EnumeratorIdle
    /\ BatchIdle
    /\ ExecutorIdle
    /\ ValidatorIdle
    /\ SingleCallIdle
    /\ line_request \in LineRequests
    /\ FlushIdle
    /\ ClonerIdle
    /\ returned_chunk = NotExtracted

\* node_text_extractor.py:282-283
ExtractLines ==
    /\ returned_chunk = NotExtracted
    /\ returned_chunk' = Str(extract_lines(line_request.content, line_request.start_line, line_request.end_line))
    /\ UNCHANGED line_request
    /\ UNCHANGED outsideLines

NextLines == ExtractLines

SpecLines == InitLines /\ [][NextLines]_vars

---------------------------------------------------------------------------
(* NodeTextExtractor: one step per call *)

ExtractorInit ==
    /\ graph \in Graphs
    /\ disk = NoDisk
    /\ file_cache = <<>>
    /\ extraction = NoExtraction
    /\ disk_reads = NoReads

InitExtract == IngestorInit /\ CallsIdle /\ ExtractorInit /\ EnumeratorIdle /\ BatchIdle /\ ExecutorIdle /\ ValidatorIdle /\ SingleCallIdle /\ LinesIdle /\ FlushIdle /\ ClonerIdle

Extract(node_id) ==
    /\ graph # NoGraph
    /\ \E d \in Disks(disk, LooksAt(graph, <<node_id>>)) :
        LET one == extract(graph, d, file_cache, node_id)
        IN  /\ \A file_path \in one.touched : disk_reads[file_path] < MaxReads
            /\ disk_reads' = count_reads(disk_reads, one.touched)
            /\ disk' = d
            /\ file_cache' = one.file_cache
            /\ extraction' = Extraction("extract", <<node_id>>, one.raised,
                                 IF one.raised = "none"
                                 THEN <<[key |-> node_id, value |-> one.result]>>
                                 ELSE <<>>,
                                 one.touched)
    /\ UNCHANGED graph
    /\ UNCHANGED outsideExtractor

ExtractBatch(node_ids) ==
    /\ graph # NoGraph
    /\ \E d \in Disks(disk, LooksAt(graph, node_ids)) :
        LET batch == extract_batch(graph, d, file_cache, node_ids)
        IN  /\ \A file_path \in batch.touched : disk_reads[file_path] < MaxReads
            /\ disk_reads' = count_reads(disk_reads, batch.touched)
            /\ disk' = d
            /\ file_cache' = batch.file_cache
            /\ extraction' = Extraction("batch", node_ids, batch.raised, batch.results, batch.touched)
    /\ UNCHANGED graph
    /\ UNCHANGED outsideExtractor

ExtractOne == \E node_id \in NodeIds : Extract(node_id)
ExtractMany == \E node_ids \in BatchInputs : ExtractBatch(node_ids)

NextExtract == ExtractOne \/ ExtractMany

SpecExtract == InitExtract /\ [][NextExtract]_vars

---------------------------------------------------------------------------
(* FileEnumerator: one step per call *)

InitEnum ==
    /\ IngestorInit
    /\ CallsIdle
    /\ ExtractorIdle
    /\ repo_entries \in Repos
    /\ cached_directories = <<>>
    /\ cached_files = <<>>
    /\ enumerated = FALSE
    /\ enumerate_calls = 0
    /\ walks = 0
    /\ completions = 0
    /\ last_read = NoRead
    /\ BatchIdle
    /\ ExecutorIdle
    /\ ValidatorIdle
    /\ SingleCallIdle
    /\ LinesIdle
    /\ FlushIdle
    /\ ClonerIdle

already_enumerated_never(is_enumerated) == FALSE

\* file_enumerator.py:72
already_enumerated(is_enumerated) == is_enumerated

enumerate(skipped) ==
    /\ enumerate_calls < MaxEnumerateCalls
    /\ enumerate_calls' = enumerate_calls + 1
    /\ completions' = completions + 1
    /\ IF already_enumerated(enumerated)
       THEN UNCHANGED <<cached_directories, cached_files, enumerated, walks>>
       ELSE /\ walks' = walks + 1
            /\ cached_directories' = enumerate_walk(repo_entries, skipped).directories
            /\ cached_files' = enumerate_walk(repo_entries, skipped).files
            /\ enumerated' = TRUE
    /\ UNCHANGED <<repo_entries, last_read>>
    /\ UNCHANGED outsideEnumerator

\* An exception out of rglob, should_skip_path, is_dir or is_file ends the
\* call before any attribute is assigned.
enumerate_raises ==
    /\ enumerate_calls < MaxEnumerateCalls
    /\ ~already_enumerated(enumerated)
    /\ enumerate_calls' = enumerate_calls + 1
    /\ walks' = walks + 1
    /\ UNCHANGED <<repo_entries, cached_directories, cached_files, enumerated, completions, last_read>>
    /\ UNCHANGED outsideEnumerator

read_directories ==
    /\ last_read' = directories(enumerated, cached_directories)
    /\ UNCHANGED <<repo_entries, cached_directories, cached_files, enumerated, enumerate_calls, walks, completions>>
    /\ UNCHANGED outsideEnumerator

read_files ==
    /\ last_read' = files(enumerated, cached_files)
    /\ UNCHANGED <<repo_entries, cached_directories, cached_files, enumerated, enumerate_calls, walks, completions>>
    /\ UNCHANGED outsideEnumerator

\* Somebody else creates or deletes entries under repo_path.
repo_changes ==
    /\ repo_entries' \in Repos \ {repo_entries}
    /\ UNCHANGED <<cached_directories, cached_files, enumerated, enumerate_calls, walks, completions, last_read>>
    /\ UNCHANGED outsideEnumerator

Enumerate == \E skipped \in SUBSET Entries : enumerate(skipped)

NextEnum ==
    \/ Enumerate
    \/ enumerate_raises
    \/ read_directories
    \/ read_files
    \/ repo_changes

SpecEnum == InitEnum /\ [][NextEnum]_vars

---------------------------------------------------------------------------
(* Batch processor: one step per repository *)

InitBatch == IngestorInit /\ CallsIdle /\ ExtractorIdle /\ EnumeratorIdle /\ BatchIdle /\ ExecutorIdle /\ ValidatorIdle /\ SingleCallIdle /\ LinesIdle /\ FlushIdle /\ ClonerIdle

\* updater.run() ends with the ingestor writing output_file; when it raises,
\* the except branch returns a failed ProcessResult and nothing is written.
process_single_repo(repo_path, run_succeeds) ==
    /\ Len(process_results) < MaxRepos
    /\ IF run_succeeds
       THEN /\ graph_files' = DictSet(graph_files, output_file(repo_path), repo_path)
            /\ process_results' = Append(process_results,
                                         ProcessResult(repo_path, Str(output_file(repo_path)), TRUE))
       ELSE /\ graph_files' = graph_files
            /\ process_results' = Append(process_results, ProcessResult(repo_path, NoneValue, FALSE))
    /\ UNCHANGED outsideBatch

ProcessRepo == \E repo_path \in RepoPaths, run_succeeds \in BOOLEAN : process_single_repo(repo_path, run_succeeds)

NextBatch == ProcessRepo

SpecBatch == InitBatch /\ [][NextBatch]_vars

---------------------------------------------------------------------------
(* AsyncBatchExecutor: one step per stretch of a task between two awaits *)

InitExecutor ==
    /\ IngestorInit
    /\ CallsIdle
    /\ ExtractorIdle
    /\ EnumeratorIdle
    /\ BatchIdle
    /\ ValidatorIdle
    /\ SingleCallIdle
    /\ LinesIdle
    /\ FlushIdle
    /\ ClonerIdle
    /\ command_cache = <<>>
    /\ concurrency \in 1..MaxBatchCommands
    /\ permits = concurrency
    /\ tasks = <<>>
    /\ batch_result = NoBatchResult
    /\ batches_run = 0
    /\ executed_earlier = {}

\* executor_async.py:63-66  run creates one task per command
run_start(commands) ==
    /\ batches_run < MaxBatches
    /\ tasks = <<>> \/ batch_result # NoBatchResult
    /\ tasks' = [i \in 1..Len(commands) |-> Task(commands[i], "pending", NoCommandResult, 0, 0)]
    /\ batch_result' = NoBatchResult
    /\ executed_earlier' = executed_earlier \cup
          {make_key(tasks[i].cmd_input.cmd, tasks[i].cmd_input.repo) :
              i \in {j \in 1..Len(tasks) : tasks[j].runs > 0}}
    /\ UNCHANGED <<command_cache, concurrency, permits, batches_run>>
    /\ UNCHANGED outsideExecutor

\* executor_async.py:33-49  the task takes a permit and looks the command
\* up: a hit is reported and returned at once, a miss goes to the runner.
execute_one_enter(i) ==
    /\ tasks[i].at = "pending"
    /\ permits > 0
    /\ LET cmd_input == tasks[i].cmd_input
           cached == cache_get(command_cache, cmd_input.cmd, cmd_input.repo)
       IN  IF cached.hit
           THEN /\ tasks' = [tasks EXCEPT ![i] =
                               Task(cmd_input, "done",
                                    CommandResult(cmd_input.cmd, cmd_input.repo, cached.return_code, TRUE),
                                    tasks[i].runs, tasks[i].notified + 1)]
                /\ UNCHANGED permits
           ELSE /\ tasks' = [tasks EXCEPT ![i].at = "executing"]
                /\ permits' = permits - 1
    /\ UNCHANGED <<command_cache, concurrency, batch_result, batches_run, executed_earlier>>
    /\ UNCHANGED outsideExecutor

\* executor_async.py:49-54  the runner returns, the result is stored and
\* reported, the permit goes back.
execute_one_finish(i, return_code) ==
    /\ tasks[i].at = "executing"
    /\ LET cmd_input == tasks[i].cmd_input
           result == CommandResult(cmd_input.cmd, cmd_input.repo, return_code, FALSE)
       IN  /\ command_cache' = cache_set(command_cache, cmd_input.cmd, cmd_input.repo, result)
           /\ tasks' = [tasks EXCEPT ![i] =
                           Task(cmd_input, "done", result, tasks[i].runs + 1, tasks[i].notified + 1)]
    /\ permits' = permits + 1
    /\ UNCHANGED <<concurrency, batch_result, batches_run, executed_earlier>>
    /\ UNCHANGED outsideExecutor

\* executor_async.py:68-84  gather returns and run counts the results
run_finish ==
    /\ batch_result = NoBatchResult
    /\ batches_run < MaxBatches
    /\ \A i \in 1..Len(tasks) : tasks[i].at = "done"
    /\ batch_result' = BatchResult(Len(tasks),
                                   Cardinality({i \in 1..Len(tasks) : ~tasks[i].result.cached}),
                                   Cardinality({i \in 1..Len(tasks) : tasks[i].result.cached}),
                                   Cardinality({i \in 1..Len(tasks) : tasks[i].result.return_code # 0}))
    /\ batches_run' = batches_run + 1
    /\ UNCHANGED <<command_cache, concurrency, permits, tasks, executed_earlier>>
    /\ UNCHANGED outsideExecutor

RunStart == \E commands \in CommandLists : run_start(commands)
ExecuteOneEnter == \E i \in 1..Len(tasks) : execute_one_enter(i)
ExecuteOneFinish == \E i \in 1..Len(tasks), return_code \in {0, 1} : execute_one_finish(i, return_code)

NextExecutor ==
    \/ RunStart
    \/ ExecuteOneEnter
    \/ ExecuteOneFinish
    \/ run_finish

SpecExecutor == InitExecutor /\ [][NextExecutor]_vars

---------------------------------------------------------------------------
(* validate_command: one step per call *)

\* A command arrives: up to MaxWords words joined by single spaces.
InitValidate ==
    /\ IngestorInit
    /\ CallsIdle
    /\ ExtractorIdle
    /\ EnumeratorIdle
    /\ BatchIdle
    /\ ExecutorIdle
    /\ given_command \in {join_words(words) : words \in WordLists}
    /\ SingleCallIdle
    /\ LinesIdle
    /\ FlushIdle
    /\ ClonerIdle
    /\ validation = NoValidation

\* validate_command(command) returns its ValidationResult.
Validate ==
    /\ validation = NoValidation
    /\ validation' = validate_command(given_command)
    /\ UNCHANGED given_command
    /\ UNCHANGED outsideValidator

NextValidate == Validate

SpecValidate == InitValidate /\ [][NextValidate]_vars

---------------------------------------------------------------------------
(* GitHubCloner.clone_repo: one step up to the retry loop, one step per pass *)
(* through the loop, one step after it                                       *)

InitClone ==
    /\ IngestorInit
    /\ CallsIdle
    /\ ExtractorIdle
    /\ EnumeratorIdle
    /\ BatchIdle
    /\ ExecutorIdle
    /\ ValidatorIdle
    /\ SingleCallIdle
    /\ LinesIdle
    /\ FlushIdle
    /\ clone_state = CloneState(<<>>, <<>>, NoneValue)
    /\ cloned \in SUBSET LocalPaths
    /\ max_retries \in 0..MaxRetries
    /\ clone_frame = NoCloneFrame
    /\ clone_result = NoCloneResult
    /\ clone_calls = 0

\* github_cloner.py:153-188, with the result of the save_state call at 188
CloneEnter(github_url, saved) ==
    /\ clone_frame.pc = "idle"
    /\ clone_calls < MaxCloneCalls
    /\ clone_calls' = clone_calls + 1
    /\ IF in_completed(clone_state, github_url) /\ is_cloned(cloned, github_url)
       THEN /\ clone_result' = CloneReturned(TRUE, 0)
            /\ clone_frame' = CloneFrame("idle", github_url, 0, 0)
            /\ UNCHANGED clone_state
       ELSE IF failed_get(clone_state, github_url) >= max_retries
       THEN /\ clone_result' =
                  IF DictHas(clone_state.failed, github_url)
                  THEN CloneReturned(FALSE, failed_get(clone_state, github_url))
                  ELSE CloneRaised("KeyError")
            /\ clone_frame' = CloneFrame("idle", github_url, 0, 0)
            /\ UNCHANGED clone_state
       ELSE /\ clone_state' = [clone_state EXCEPT !.in_progress = Str(github_url)]
            /\ IF saved
               THEN /\ clone_frame' = CloneFrame("loop", github_url, 0, 0)
                    /\ clone_result' = NoCloneResult
               ELSE /\ clone_frame' = CloneFrame("idle", github_url, 0, 0)
                    /\ clone_result' = CloneRaised("OSError")
    /\ UNCHANGED <<cloned, max_retries>>
    /\ UNCHANGED outsideCloner

\* github_cloner.py:198-270: one pass through the retry loop, with what it
\* meets and the result of the save_state call at 222
CloneAttempt(outcome, saved) ==
    LET github_url == clone_frame.github_url
        local_path == get_local_path(github_url)
        retried == [clone_frame EXCEPT !.retry_count = @ + 1,
                                       !.attempts = IF outcome = "setup_error" THEN @ ELSE @ + 1]
    IN  /\ clone_frame.pc = "loop"
        /\ clone_frame.retry_count < max_retries
        /\ cloned' =
              IF outcome = "setup_error" THEN cloned
              ELSE IF outcome \in {"cloned", "timeout_partial"} THEN cloned \cup {local_path}
              ELSE cloned \ {local_path}
        /\ IF outcome = "cloned"
           THEN /\ clone_state' = record_success(clone_state, github_url)
                /\ IF saved
                   THEN /\ clone_frame' = [clone_frame EXCEPT !.pc = "idle", !.attempts = @ + 1]
                        /\ clone_result' = CloneReturned(TRUE, clone_frame.retry_count)
                   ELSE /\ clone_frame' = retried
                        /\ UNCHANGED clone_result
           ELSE /\ clone_frame' =
                      IF outcome \in PermanentFailures
                      THEN [clone_frame EXCEPT !.pc = "after_loop", !.attempts = @ + 1]
                      ELSE retried
                /\ UNCHANGED <<clone_state, clone_result>>
        /\ UNCHANGED <<max_retries, clone_calls>>
        /\ UNCHANGED outsideCloner

\* github_cloner.py:272-288, with the result of the save_state call at 276
CloneGiveUp(saved) ==
    /\ \/ clone_frame.pc = "after_loop"
       \/ clone_frame.pc = "loop" /\ clone_frame.retry_count >= max_retries
    /\ clone_state' = record_failure(clone_state, clone_frame.github_url, clone_frame.retry_count)
    /\ clone_frame' = [clone_frame EXCEPT !.pc = "idle"]
    /\ clone_result' =
          IF saved THEN CloneReturned(FALSE, clone_frame.retry_count) ELSE CloneRaised("OSError")
    /\ UNCHANGED <<cloned, max_retries, clone_calls>>
    /\ UNCHANGED outsideCloner

\* Between two calls a clone is removed from the clone directory.
RemoveClone(local_path) ==
    /\ clone_frame.pc = "idle"
    /\ local_path \in cloned
    /\ cloned' = cloned \ {local_path}
    /\ UNCHANGED <<clone_state, max_retries, clone_frame, clone_result, clone_calls>>
    /\ UNCHANGED outsideCloner

CloneCall == \E github_url \in GitHubUrls, saved \in BOOLEAN : CloneEnter(github_url, saved)
ClonePass == \E outcome \in AttemptOutcomes, saved \in BOOLEAN : CloneAttempt(outcome, saved)
CloneLeave == \E saved \in BOOLEAN : CloneGiveUp(saved)
CloneRemoved == \E local_path \in LocalPaths : RemoveClone(local_path)

NextClone == CloneCall \/ ClonePass \/ CloneLeave \/ CloneRemoved

SpecClone == InitClone /\ [][NextClone]_vars

---------------------------------------------------------------------------
(* Vocabulary of the properties *)

Range(s) == {s[i] : i \in 1..Len(s)}

\* The permutations of a sequence.
Orderings(s) ==
    {[i \in 1..Len(s) |-> s[f[i]]] :
        f \in {g \in [1..Len(s) -> 1..Len(s)] :
                 \A i, j \in 1..Len(s) : g[i] = g[j] => i = j}}

\* The property a label's identity key is specified to be taken from.
IdentityProperty(label, properties) ==
    IF label \in {s_Folder, s_File} THEN "path"
    ELSE IF label \in {s_ExternalPackage, s_Project} THEN "name"
    ELSE IF label \in NodeLabel THEN "qualified_name"
    ELSE IF properties.qualified_name.k # "absent" THEN "qualified_name"
    ELSE "name"

\* The value of that property in a call, as passed (possibly absent or None).
IdentityValue(c) == c.properties[IdentityProperty(c.label, c.properties)]

\* The text the value contributes to a key.
Rendered(v) == IF v.k = "absent" THEN <<>> ELSE IF v.k = "none" THEN s_None ELSE v.s

\* The key string label:value a call is expected to register under.
ExpectedKey(c) == c.label \o <<58>> \o Rendered(IdentityValue(c))

\* The positions in the node table holding a node under the given key.
EntriesUnder(key) == {n \in 1..Len(nodes) : nodes[n].key = key}

\* The ingestor state reached by issuing the given calls in the given order.
RECURSIVE Replay(_)
Replay(calls) ==
    IF calls = <<>> THEN Tables(<<>>, <<>>, 0, FALSE)
    ELSE register_node(Replay(SubSeq(calls, 1, Len(calls) - 1)),
                       calls[Len(calls)].label, calls[Len(calls)].properties)

NodeIdsOf(list) == {list[i].node_id : i \in 1..Len(list)}

\* Both endpoint keys of a buffered relationship are in the node table.
BothRegistered(rel) == EntriesUnder(rel.from_key) # {} /\ EntriesUnder(rel.to_key) # {}

\* The output form of a buffered relationship whose endpoints are registered.
Resolved(rel) ==
    [from_id |-> nodes[CHOOSE n \in EntriesUnder(rel.from_key) : TRUE].value.node_id,
     to_id |-> nodes[CHOOSE n \in EntriesUnder(rel.to_key) : TRUE].value.node_id,
     type |-> rel.type,
     properties |-> rel.properties]

Occurrences(list, x) == Cardinality({i \in 1..Len(list) : list[i] = x})

---------------------------------------------------------------------------
(* Properties of the ingestor *)

\* C1: calls with the same label and the same identity-key value produce exactly
\* one node with one node_id, and the node keeps the properties of the earliest
\* such call.
C1_FirstRegistrationWins ==
    /\ \A i \in 1..Len(issued) :
          LET c == issued[i]
              same == {j \in 1..Len(issued) :
                          /\ issued[j].label = c.label
                          /\ Rendered(IdentityValue(issued[j])) = Rendered(IdentityValue(c))}
              first == CHOOSE j \in same : \A k \in same : j <= k
          IN /\ Cardinality(EntriesUnder(ExpectedKey(c))) = 1
             /\ \A n \in EntriesUnder(ExpectedKey(c)) :
                   /\ nodes[n].value.labels = <<c.label>>
                   /\ nodes[n].value.properties = NonNull(issued[first].properties)
    /\ \A m, n \in 1..Len(nodes) :
          nodes[m].value.node_id = nodes[n].value.node_id => m = n

C1_Witness ==
    \E i, j \in 1..Len(issued) :
        /\ i < j
        /\ ExpectedKey(issued[i]) = ExpectedKey(issued[j])
        /\ NonNull(issued[i].properties) # NonNull(issued[j].properties)
        /\ Len(nodes) = 2

\* C2: under any interleaving of ensure_node_batch calls from concurrent workers
\* the ids of the stored nodes are exactly 0 .. n-1, no id is given to two nodes
\* and none is skipped, and once the calls have returned n is the number of
\* distinct identity keys registered.
C2_IdsDenseUnderConcurrency ==
    /\ NodeIdsOf(DictValues(nodes)) = 0..(Len(nodes) - 1)
    /\ \A m, n \in 1..Len(nodes) :
          nodes[m].value.node_id = nodes[n].value.node_id => m = n
    /\ (\A w \in Workers : pc[w] = "idle") =>
          /\ Len(nodes) = Cardinality({ExpectedKey(issued[i]) : i \in 1..Len(issued)})
          /\ node_counter = Len(nodes)
          /\ \A i \in 1..Len(issued) :
                Cardinality(EntriesUnder(ExpectedKey(issued[i]))) = 1

C2_Witness ==
    \E v, w \in Workers :
        /\ v # w
        /\ pc[v] = "store"
        /\ pc[w] = "acquire"
        /\ frame[v].node_key = frame[w].node_key
        /\ frame[v].node_id = 1

\* C3: for a fixed set of calls the export is the same for every order in which
\* the calls are issued.
C3_ExportIndependentOfCallOrder ==
    out.written =>
        \A ns \in Orderings(issued) :
            \A rs \in Orderings(relationships) :
                flush_result(Replay(ns).nodes, Replay(ns).node_id_lookup, rs) = out

\* C4: every relationship in the output has endpoints among the output's nodes,
\* a buffered relationship with an unregistered endpoint is not in the output,
\* and flush_all completes without error.
C4_NoDanglingRelationship ==
    out.written =>
        /\ \A i \in 1..Len(out.relationships) :
              /\ out.relationships[i].from_id \in NodeIdsOf(out.nodes)
              /\ out.relationships[i].to_id \in NodeIdsOf(out.nodes)
        /\ Len(out.relationships) =
              Cardinality({i \in 1..Len(relationships) : BothRegistered(relationships[i])})
        /\ ~raised

C4_Witness ==
    /\ out.written
    /\ \E i \in 1..Len(relationships) : ~BothRegistered(relationships[i])
    /\ \E i \in 1..Len(relationships) : BothRegistered(relationships[i])
    /\ Len(out.relationships) = 1

\* C5: every buffered relationship whose two endpoint keys are registered by the
\* time of the flush is in the output once for each time it was buffered.
C5_ResolvableRelationshipsKept ==
    out.written =>
        \A i \in 1..Len(relationships) :
            BothRegistered(relationships[i]) =>
                Occurrences(out.relationships, Resolved(relationships[i]))
                    = Occurrences(relationships, relationships[i])

C5_Witness ==
    /\ out.written
    /\ buffered_early
    /\ Len(relationships) = 2
    /\ relationships[1] = relationships[2]
    /\ Len(out.relationships) = 2

\* C6: the order of the nodes array is determined by the set of registered
\* nodes alone and not by the order in which they were registered.
C6_NodeOrderIndependentOfRegistration ==
    out.written =>
        \A t \in Orderings(nodes) :
            [i \in 1..Len(t) |->
                    <<SortNodes(DictValues(t))[i].labels, SortNodes(DictValues(t))[i].properties>>]
                = [i \in 1..Len(out.nodes) |-> <<out.nodes[i].labels, out.nodes[i].properties>>]

\* C7: the relationships array is in non-decreasing order of (from_id, type, to_id).
C7_RelationshipsSorted ==
    out.written =>
        \A i, j \in 1..Len(out.relationships) :
            i < j =>
                LET a == out.relationships[i]
                    b == out.relationships[j]
                IN \/ a.from_id < b.from_id
                   \/ a.from_id = b.from_id /\ StrLess(a.type, b.type)
                   \/ a.from_id = b.from_id /\ a.type = b.type /\ a.to_id <= b.to_id

C7_Witness ==
    /\ out.written
    /\ Len(relationships) = 2
    /\ Len(out.relationships) = 2
    /\ out.relationships[1].from_id < out.relationships[2].from_id
    /\ Resolved(relationships[1]) = out.relationships[2]

\* C8 as stated: two registrations are the same node exactly when they have the
\* same label and the same value of the label's key property.
C8_SameNodeIffSameLabelAndValue ==
    Cardinality({n \in 1..Len(nodes) : nodes[n].value.labels[1] \in NodeLabel})
        = Cardinality({<<issued[i].label, IdentityValue(issued[i])>> :
                          i \in {j \in 1..Len(issued) : issued[j].label \in NodeLabel}})

\* C8 amended: two registrations with recognised labels are the same node
\* exactly when they have the same label and the same rendered value of the
\* label's key property (path for Folder and File, name for ExternalPackage
\* and Project, qualified_name otherwise), an absent property rendering as the
\* empty string and None as "None".
C8_SameNodeIffSameLabelAndRenderedValue ==
    /\ Cardinality({n \in 1..Len(nodes) : nodes[n].value.labels[1] \in NodeLabel})
          = Cardinality({<<issued[i].label, Rendered(IdentityValue(issued[i]))>> :
                            i \in {j \in 1..Len(issued) : issued[j].label \in NodeLabel}})
    /\ \A i \in 1..Len(issued) :
          issued[i].label \in NodeLabel =>
              \E n \in EntriesUnder(ExpectedKey(issued[i])) :
                  nodes[n].value.labels = <<issued[i].label>>

C8_Witness ==
    /\ Len(issued) = 3
    /\ Len(nodes) = 2
    /\ \E i, j \in 1..Len(issued) :
          /\ issued[i].label = issued[j].label
          /\ issued[i].label \in NodeLabel
          /\ IdentityValue(issued[i]) = NoneValue
          /\ IdentityValue(issued[j]) = Str(s_None)
    /\ \E n \in 1..Len(nodes) : nodes[n].value.labels = <<s_File>>

\* C9: a call with a label that is not a known NodeLabel never raises; the node
\* is registered or deduplicated under label:qualified_name (label:name when
\* qualified_name is absent) and the calls that follow are served as usual.
C9_UnknownLabelFallsBack ==
    /\ ~raised
    /\ \A i \in 1..Len(issued) :
          issued[i].label \notin NodeLabel =>
              /\ Cardinality(EntriesUnder(ExpectedKey(issued[i]))) = 1
              /\ \A j \in i..Len(issued) :
                    Cardinality(EntriesUnder(ExpectedKey(issued[j]))) = 1

C9_Witness ==
    /\ Len(issued) = 3
    /\ issued[1].label \notin NodeLabel
    /\ issued[2].label \notin NodeLabel
    /\ issued[1] # issued[2]
    /\ ExpectedKey(issued[1]) = ExpectedKey(issued[2])
    /\ issued[3].label \in NodeLabel
    /\ Len(nodes) = 2

\* the keys of a dict
KeysOf(d) == {d[i].key : i \in 1..Len(d)}

\* The node table and the id lookup agree and the counter counts the nodes.
TablesConsistent ==
    /\ KeysOf(nodes) = KeysOf(node_id_lookup)
    /\ \A i \in 1..Len(nodes) : nodes[i].value.node_id = LookupGet(node_id_lookup, nodes[i].key)
    /\ node_counter = Cardinality(KeysOf(nodes))

\* A step removes no node, changes no assigned id and removes no buffered
\* relationship.
NothingRemoved ==
    /\ KeysOf(nodes) \subseteq KeysOf(nodes')
    /\ \A i \in 1..Len(nodes) :
          /\ LookupGet(node_id_lookup', nodes[i].key) = LookupGet(node_id_lookup, nodes[i].key)
          /\ nodes'[DictIndex(nodes', nodes[i].key)].value.node_id = nodes[i].value.node_id
    /\ Len(relationships) <= Len(relationships')
    /\ SubSeq(relationships', 1, Len(relationships)) = relationships

\* C25: in every reachable state the node table and the id lookup have the
\* same keys, each node's node_id is the lookup entry of its key and the
\* counter equals the number of nodes; and no operation removes a node,
\* changes an assigned id or removes a buffered relationship.
C25_TablesConsistentNothingRemoved == []TablesConsistent /\ [][NothingRemoved]_vars

\* two nodes are stored, a third registration was refused as a duplicate, a
\* relationship is buffered and the export has been written
C25_Witness ==
    /\ out.written
    /\ Len(nodes) = 2
    /\ Len(issued) = 3
    /\ Len(relationships) = 1

\* The endpoint specs (label, property name, value) a caller can hand to
\* ensure_relationship_batch.
EndpointLabels == {s_Function, s_Class, s_File, s_Project, s_Widget}
EndpointProperties == {KEY_QUALIFIED_NAME, KEY_NAME, KEY_PATH}
EndpointValues == {Str(s_a), Str(s_x), Str(s_p), Str(s_None), Str(s_Empty), NoneValue}

\* flush_all finds an id for the endpoint in the lookup it was run on.
EndpointResolves(spec) ==
    DictHas(node_id_lookup, RelRecord(spec, s_CALLS, spec, RelNone).from_key)

\* The buffered relationships flush_all keeps: those with both keys in the
\* id lookup.
KeptAtFlush ==
    {i \in 1..Len(relationships) :
        /\ LookupGet(node_id_lookup, relationships[i].from_key) # NoId
        /\ LookupGet(node_id_lookup, relationships[i].to_key) # NoId}

\* C27 as stated: at flush an endpoint resolves exactly when some node was registered
\* under its label whose key property has the endpoint's value, whatever the
\* property the endpoint names, and a relationship with an endpoint that does
\* not resolve is dropped.
C27_ResolvesIffKeyPropertyHasValue ==
    out.written =>
        /\ \A label \in EndpointLabels, value \in EndpointValues :
              LET registered == \E i \in 1..Len(issued) :
                                    /\ issued[i].label = label
                                    /\ IdentityValue(issued[i]) = value
              IN \A property \in EndpointProperties :
                    EndpointResolves(EndpointSpec(label, property, value)) <=> registered
        /\ Len(out.relationships) = Cardinality(KeptAtFlush)

\* C27: the same with the values compared as the key renders them, None as
\* "None" and an absent property as the empty string.
C27_ResolvesIffKeyPropertyRendersAsValue ==
    out.written =>
        /\ \A label \in EndpointLabels, value \in EndpointValues :
              LET registered == \E i \in 1..Len(issued) :
                                    /\ issued[i].label = label
                                    /\ Rendered(IdentityValue(issued[i])) = Rendered(value)
              IN \A property \in EndpointProperties :
                    EndpointResolves(EndpointSpec(label, property, value)) <=> registered
        /\ Len(out.relationships) = Cardinality(KeptAtFlush)

\* a Function with qualified_name "a" and name "x" is registered, a
\* relationship from the endpoint (Function, name, "x") to it was buffered,
\* and the export was written without it
C27_Witness ==
    /\ out.written
    /\ \E i \in 1..Len(issued) :
          /\ issued[i].label = s_Function
          /\ issued[i].properties.qualified_name = Str(s_a)
          /\ issued[i].properties.name = Str(s_x)
    /\ \E i \in 1..Len(relationships) :
          /\ relationships[i].from_key = s_Function \o s_Colon \o s_x
          /\ relationships[i].to_key = s_Function \o s_Colon \o s_a
    /\ ~EndpointResolves(EndpointSpec(s_Function, KEY_NAME, Str(s_x)))
    /\ EndpointResolves(EndpointSpec(s_Function, KEY_NAME, Str(s_a)))
    /\ out.relationships = <<>>

\* The call lacks the key property of its label.
LacksKeyProperty(c) == IdentityValue(c).k = "absent"

\* The issued calls of the given label that lack the key property.
LackingCalls(label) ==
    {i \in 1..Len(issued) : issued[i].label = label /\ LacksKeyProperty(issued[i])}

\* C28: ensure_node_batch never rejects a node for lacking its key property.
\* The key of every call is label:value and so never empty, so that the
\* empty-key guard never fires and a node is stored under the key after the
\* call; the calls of one label that lack the key property all get the key
\* "label:", under which only the first node registered is stored and the
\* later ones are discarded without an error.
C28_LackingKeyPropertySharesLabelKey ==
    /\ ~raised
    /\ \A i \in 1..Len(issued) :
          /\ ExpectedKey(issued[i]) # <<>>
          /\ Cardinality(EntriesUnder(ExpectedKey(issued[i]))) = 1
    /\ \A i \in 1..Len(issued) :
          LacksKeyProperty(issued[i]) =>
              LET label == issued[i].label
                  key == label \o <<58>>
                  under == {j \in 1..Len(issued) : ExpectedKey(issued[j]) = key}
                  first == CHOOSE j \in under : \A k \in under : j <= k
              IN /\ ExpectedKey(issued[i]) = key
                 /\ \A n \in EntriesUnder(key) :
                       /\ nodes[n].value.labels = <<label>>
                       /\ nodes[n].value.properties = NonNull(issued[first].properties)
    /\ Len(nodes) = Cardinality({ExpectedKey(issued[i]) : i \in 1..Len(issued)})

\* two Class nodes without qualified_name were registered, with different
\* names: one node is stored under "Class:", the first one
C28_Witness ==
    /\ \E i, j \in LackingCalls(s_Class) :
          /\ i < j
          /\ issued[i].properties # issued[j].properties
          /\ \A k \in LackingCalls(s_Class) : i <= k
          /\ \E n \in 1..Len(nodes) :
                /\ nodes[n].key = s_Class \o s_Colon
                /\ nodes[n].value.properties = NonNull(issued[i].properties)
                /\ nodes[n].value.properties # NonNull(issued[j].properties)
    /\ Len(nodes) = 1
    /\ ~raised

---------------------------------------------------------------------------
(* Properties of the call processor *)

\* The proper ancestors of a node, nearest first.
RECURSIVE AncestorChain(_, _)
AncestorChain(t, n) ==
    IF t.parent[n] = NoParent THEN <<>>
    ELSE <<t.parent[n]>> \o AncestorChain(t, t.parent[n])

\* The proper ancestors of a node whose byte-range key is in the context index.
IndexedAncestors(n) ==
    {i \in 1..Len(AncestorChain(tree, n)) :
        \E e \in 1..Len(contexts) :
            contexts[e].key = <<StartByte(tree, AncestorChain(tree, n)[i]),
                                EndByte(tree, AncestorChain(tree, n)[i])>>}

\* The contexts whose call list holds a node.
HoldersOf(n) ==
    {e \in 1..Len(contexts) :
        \E i \in 1..Len(contexts[e].value.call_nodes) : contexts[e].value.call_nodes[i] = n}

\* C10: every collected call expression is in the call list of exactly one
\* CallContext, the one registered for its nearest ancestor whose
\* (start_byte, end_byte) key is in the context index, and is there once.
C10_CallAttributedToNearestContext ==
    call_pc \in {"attribute", "process"} =>
        \A k \in 1..Len(all_calls) :
            k < call_index =>
                LET c == all_calls[k]
                    chain == AncestorChain(tree, c)
                    nearest == CHOOSE i \in IndexedAncestors(c) :
                                   \A j \in IndexedAncestors(c) : i <= j
                IN /\ IndexedAncestors(c) # {}
                   /\ Cardinality(HoldersOf(c)) = 1
                   /\ \A e \in HoldersOf(c) :
                         /\ Occurrences(contexts[e].value.call_nodes, c) = 1
                         /\ contexts[e].key = <<StartByte(tree, chain[nearest]),
                                                EndByte(tree, chain[nearest])>>

C10_Witness ==
    /\ call_pc = "process"
    /\ Len(all_calls) >= 1
    /\ \E k \in 1..Len(all_calls) :
          /\ Cardinality(IndexedAncestors(all_calls[k])) >= 3
          /\ \E e \in HoldersOf(all_calls[k]) : contexts[e].value.caller_node # RootNode

\* C11: process_calls_in_file never propagates an exception to its caller; a
\* failure while processing a file is caught and logged.
C11_NoExceptionEscapesFile == last_result # "propagated"

\* The resolver results _process_single_call consults, in the order of the
\* claim: Java method-call or generic function-call resolution, then
\* builtin, then operator-overload resolution.
ResolutionOrder(call) ==
    << IF call.language_is_java /\ call.is_method_invocation
       THEN call.java_method_call ELSE call.function_call,
       call.builtin_call,
       call.cpp_operator_call >>

Successes(call) == {i \in 1..3 : ResolutionOrder(call)[i] # NoCallee}

\* the relationship buffered for a call from the context to the callee
CallsRelationship(context, callee) ==
    [from_key |-> context.caller_type \o s_Colon \o context.caller_qn,
     to_key |-> callee[1] \o s_Colon \o callee[2],
     type |-> s_CALLS,
     properties |-> <<>>]

\* C22: a processed call with an extractable callee name leaves exactly one
\* CALLS relationship, from the caller context to the callee of the first
\* resolver that succeeded, and nothing when every resolver failed or no
\* callee name was extracted.
C22_FirstResolverWins ==
    processed_call.done =>
        LET call == processed_call.call
            first == CHOOSE i \in Successes(call) : \A j \in Successes(call) : i <= j
        IN  IF call.call_name.k = "str" /\ call.call_name.s # <<>> /\ Successes(call) # {}
            THEN relationships = <<CallsRelationship(processed_call.context, ResolutionOrder(call)[first])>>
            ELSE relationships = <<>>

\* a call whose function-call resolution failed and whose builtin and
\* operator resolutions both succeed was attributed to the builtin callee
C22_Witness ==
    /\ processed_call.done
    /\ processed_call.call.call_name = Str(s_a)
    /\ Successes(processed_call.call) = {2, 3}
    /\ relationships = <<CallsRelationship(processed_call.context, builtin_callee)>>

---------------------------------------------------------------------------
(* Properties of the text extractor *)

\* the node the last extract call was about
Extracted == extraction.node_ids[1]

\* the NodeTextResult the last extract call returned
Returned == extraction.results[1].value

\* the last call was extract on a node of the graph, and it returned
ExtractReturned ==
    /\ extraction.kind = "extract"
    /\ extraction.raised = "none"
    /\ Extracted \in DOMAIN graph.shape

\* C12: extract never raises; every failure comes back in the error field.
C12_ExtractNeverRaises == extraction.kind = "extract" => extraction.raised = "none"

\* The nodes that an inbound DEFINES / DEFINES_METHOD relationship leads to
\* from node.
DefiningParents(g, node) ==
    LET incoming == get_incoming_relationships(g, node)
    IN  {incoming[i].from_id : i \in {j \in 1..Len(incoming) : incoming[j].type \in {s_DEFINES, s_DEFINES_METHOD}}}

\* The nodes reached from node by exactly k such relationships.
RECURSIVE DefiningAncestors(_, _, _)
DefiningAncestors(g, node, k) ==
    IF k = 0 THEN {node}
    ELSE UNION {DefiningParents(g, a) : a \in DefiningAncestors(g, node, k - 1)}

IsFileNode(g, node) == LabelSet(node_labels(g, node)) \cap {s_Module, s_File} # {}

\* The Module / File nodes the chain of node reaches after k >= 1 steps.
Owners(g, node) ==
    {m \in DOMAIN g.shape :
        /\ IsFileNode(g, m)
        /\ \E k \in 1..LastNode(g) : m \in DefiningAncestors(g, node, k)}

\* The relationship type that defines a node with these labels.
DefinedVia(labels) == IF s_Method \in LabelSet(labels) THEN s_DEFINES_METHOD ELSE s_DEFINES

\* node is a Function, Class or Method whose every step up to the owner m
\* leaves a Function, Class or Method through the relationship type that
\* defines it.
RECURSIVE ContainedIn(_, _, _)
ContainedIn(g, node, m) ==
    /\ LabelSet(node_labels(g, node)) \cap {s_Function, s_Class, s_Method} # {}
    /\ \E r \in {get_incoming_relationships(g, node)[i] : i \in 1..Len(get_incoming_relationships(g, node))} :
          /\ r.type = DefinedVia(node_labels(g, node))
          /\ r.from_id = m \/ (~IsFileNode(g, r.from_id) /\ r.from_id > 0 /\ r.from_id < node /\ ContainedIn(g, r.from_id, m))

\* Lines lo .. hi of a text, 1-based and inclusive, joined with newlines.
LinesOf(text, lo, hi) ==
    LET lines == splitlines(text)
        first == Max(1, lo)
        last == Min(Len(lines), hi)
    IN  join_lines([i \in 1..(last - first + 1) |-> lines[first + i - 1]])

\* extract found the node in the file of module m: no error, that file's
\* path, the node's own qualified_name and its own lines.
ExtractedFrom(m) ==
    LET own == node_properties(graph, Extracted)
        file_path == repo_base_path \o s_Slash \o node_properties(graph, m).path.s
    IN  /\ extraction.raised = "none"
        /\ Returned.error = NoneValue
        /\ Returned.file_path = Str(file_path)
        /\ Returned.qualified_name = own.qualified_name
        /\ Returned.start_line = own.start_line
        /\ Returned.end_line = own.end_line
        /\ disk[file_path].k = "str"
        /\ Returned.code_chunk = Str(LinesOf(disk[file_path].s, own.start_line.s[1], own.end_line.s[1]))

ExtractedCodeNode ==
    /\ extraction.kind = "extract"
    /\ Extracted \in DOMAIN graph.shape
    /\ LabelSet(node_labels(graph, Extracted)) \cap {s_Function, s_Class, s_Method} # {}

C14_BatchResultsIndependent ==
    extraction.kind = "batch" =>
        \A i \in 1..Len(extraction.node_ids) :
            LET node_id == extraction.node_ids[i]
                alone == extract(graph, [file_path \in AbsPaths |->
                                            IF disk[file_path] = Unobserved THEN Missing ELSE disk[file_path]],
                                 <<>>, node_id)
            IN  alone.raised = "none" =>
                    /\ DictHas(extraction.results, node_id)
                    /\ extraction.results[DictIndex(extraction.results, node_id)].value = alone.result

\* the categories of a node with one label, read off the three label sets
CategoriesOf(label) ==
    {c \in {"code", "file", "structural", "unknown"} :
        \/ c = "code" /\ label \in LABELS_WITH_LINE_INFO
        \/ c = "file" /\ label \in LABELS_WITH_PATH
        \/ c = "structural" /\ label \in LABELS_STRUCTURAL
        \/ c = "unknown" /\ label \notin LABELS_WITH_LINE_INFO \cup LABELS_WITH_PATH \cup LABELS_STRUCTURAL}

\* C15: every node is in exactly one of the categories code, file,
\* structural, unknown, and extract on a structural or unknown node returns
\* an error and no code_chunk without looking at the disk.
C15_OneCategoryAndNoContent ==
    /\ LABELS_WITH_LINE_INFO \cap LABELS_WITH_PATH = {}
    /\ LABELS_WITH_LINE_INFO \cap LABELS_STRUCTURAL = {}
    /\ LABELS_WITH_PATH \cap LABELS_STRUCTURAL = {}
    /\ \A node \in DOMAIN graph.shape :
          CategoriesOf(node_labels(graph, node)[1]) = {get_node_category(node_labels(graph, node))}
    /\ ( /\ extraction.kind = "extract"
         /\ Extracted \in DOMAIN graph.shape
         /\ get_node_category(node_labels(graph, Extracted)) \in {"structural", "unknown"} )
       => /\ extraction.raised = "none"
          /\ Returned.error # NoneValue
          /\ Returned.code_chunk = NoneValue
          /\ extraction.touched = {}

\* a Project node was extracted and an error came back
C15_Witness ==
    /\ ExtractReturned
    /\ node_labels(graph, Extracted) = <<s_Project>>
    /\ Returned.error # NoneValue

\* node lies on a cycle of inbound DEFINES / DEFINES_METHOD relationships
OnDefiningCycle(g, node) == \E k \in 1..LastNode(g) : node \in DefiningAncestors(g, node, k)

\* C21: extract on a code node that lies on a cycle of DEFINES /
\* DEFINES_METHOD relationships ends with a returned error, not with an
\* exception of the unbounded recursion.
C21_WalkOnCycleReturnsError ==
    ( /\ extraction.kind = "extract"
      /\ Extracted \in DOMAIN graph.shape
      /\ get_node_category(node_labels(graph, Extracted)) = "code"
      /\ OnDefiningCycle(graph, Extracted) )
    => /\ extraction.raised = "none"
       /\ Returned.error # NoneValue

\* C23: over any sequence of extract calls on one extractor, each absolute
\* path is read from disk at most once.
C23_EachPathReadAtMostOnce == \A file_path \in AbsPaths : disk_reads[file_path] <= 1

\* C24: code_chunk is the file's lines max(1, start_line) ..
\* min(line_count, end_line), 1-based and inclusive, joined with newlines,
\* and the empty string when that range is empty.
C24_ChunkIsClampedRange ==
    returned_chunk # NotExtracted =>
        returned_chunk = Str(LinesOf(line_request.content, line_request.start_line, line_request.end_line))

\* The labels of code nodes from which the walk follows no parent.
UnwalkedCodeLabels == {s_Interface, s_Enum, s_Type, s_Union}

\* node is labelled only Interface, Enum, Type or Union, or is a structural
\* node.
StopsWalk(g, node) ==
    \/ /\ node_labels(g, node) # <<>>
       /\ LabelSet(node_labels(g, node)) \subseteq UnwalkedCodeLabels
    \/ /\ LabelSet(node_labels(g, node)) \cap LABELS_STRUCTURAL # {}
       /\ LabelSet(node_labels(g, node)) \cap (LABELS_WITH_LINE_INFO \cup LABELS_WITH_PATH) = {}

\* The parent chain of node reaches such a node after k >= 0 steps, with no
\* Module or File node before it.
PassesThroughStop(g, node) ==
    \E k \in 0..LastNode(g) :
        /\ \E a \in DefiningAncestors(g, node, k) : StopsWalk(g, a)
        /\ \A j \in 0..(k - 1) : \A a \in DefiningAncestors(g, node, j) : ~IsFileNode(g, a)

\* extract returned the error 'Could not find module/file for node'.
ReturnedNoModule ==
    /\ extraction.raised = "none"
    /\ Returned.error = Str(s_NoModule)
    /\ Returned.file_path = NoneValue
    /\ Returned.code_chunk = NoneValue

---------------------------------------------------------------------------
(* Properties of the file enumerator *)

\* C16: once an enumerate call has completed, a further enumerate call, with
\* whatever patterns, starts no walk and leaves directories and files as
\* they were.
C16_SecondEnumerateIsNoOp ==
    [][(completions > 0 /\ enumerate_calls' # enumerate_calls) =>
          /\ walks' = walks
          /\ cached_directories' = cached_directories
          /\ cached_files' = cached_files]_vars

\* a second enumerate call has returned after the disk changed, and the
\* lists are not the ones a walk would give now
C16_Witness ==
    /\ completions >= 2
    /\ walks = 1
    /\ \A skipped \in SUBSET Entries : cached_files # enumerate_walk(repo_entries, skipped).files

\* C17: reading directories or files raises RuntimeError in every state in
\* which no enumerate call has completed, and never once one has.
C17_ReadRaisesIffNotEnumerated ==
    /\ directories(enumerated, cached_directories).raised = "RuntimeError" <=> completions = 0
    /\ files(enumerated, cached_files).raised = "RuntimeError" <=> completions = 0
    /\ completions > 0 =>
          /\ directories(enumerated, cached_directories).value = cached_directories
          /\ files(enumerated, cached_files).value = cached_files

\* a read raised after an enumerate call had started a walk and failed
C17_Witness ==
    /\ last_read.raised = "RuntimeError"
    /\ walks > 0
    /\ completions = 0

---------------------------------------------------------------------------
(* Properties of the batch processor *)

\* the file name the tests expect: {owner}__{repo}.json
output_file_owner_qualified(repo_path) == repo_path.owner \o s_dunder \o repo_path.name \o s_json

\* C18: every repository processed with success has its graph in the file
\* {owner}__{repo}.json of the output directory, so repositories of the same
\* name under different owners do not overwrite each other.
C18_GraphFilesOwnerQualified ==
    \A i \in 1..Len(process_results) :
        process_results[i].success =>
            LET repo_path == process_results[i].repo_path
            IN  /\ DictHas(graph_files, output_file_owner_qualified(repo_path))
                /\ graph_files[DictIndex(graph_files, output_file_owner_qualified(repo_path))].value = repo_path

---------------------------------------------------------------------------
(* Properties of the command executor *)

KeyOf(task) == make_key(task.cmd_input.cmd, task.cmd_input.repo)

\* C19: in every batch each command is either served from the cache (cached
\* result, runner not invoked) or executed once by the runner and stored;
\* executed + cached = total_commands; on_result is called exactly once per
\* command; a command executed in an earlier batch is served from the cache.
C19_CachedOrExecutedOnce ==
    /\ \A i \in 1..Len(tasks) :
          IF tasks[i].at = "done"
          THEN /\ tasks[i].notified = 1
               /\ tasks[i].result.cached => tasks[i].runs = 0
               /\ ~tasks[i].result.cached => tasks[i].runs = 1 /\ DictHas(command_cache, KeyOf(tasks[i]))
               /\ KeyOf(tasks[i]) \in executed_earlier => tasks[i].result.cached
          ELSE tasks[i].notified = 0 /\ tasks[i].runs = 0
    /\ batch_result # NoBatchResult =>
          /\ batch_result.total_commands = Len(tasks)
          /\ batch_result.executed + batch_result.cached = batch_result.total_commands

\* a later batch of one command, executed in an earlier batch, has returned
\* with cached = 1 and executed = 0
C19_Witness ==
    /\ batches_run >= 2
    /\ batch_result = BatchResult(1, 0, 1, 0)
    /\ KeyOf(tasks[1]) \in executed_earlier

---------------------------------------------------------------------------
(* Properties of the command allowlist *)

\* git's own command line: the options before the subcommand that take their
\* argument as the next word (git -C <path>), the other words that start with
\* a dash being options without one (git --no-pager).
GitOptionsWithArgument == {s_dash_C}

\* The subcommand git runs for the words after "git": the first word that is
\* neither an option nor the argument of one; <<>> when there is none.
RECURSIVE git_subcommand_from(_, _)
git_subcommand_from(parts, i) ==
    IF i > Len(parts) THEN <<>>
    ELSE IF parts[i] \in GitOptionsWithArgument THEN git_subcommand_from(parts, i + 2)
    ELSE IF startswith_dash(parts[i]) THEN git_subcommand_from(parts, i + 1)
    ELSE <<parts[i]>>

\* The git subcommand the first segment of the command runs, as a sequence of
\* at most one word: empty when the first segment is not a git command, does
\* not parse, or names no subcommand.
git_subcommand_run(c) ==
    LET segments == split_pipeline(strip(c))
        split == shlex_split(segments[1])
    IN  IF segments = <<>> THEN <<>>
        ELSE IF split.error # "" \/ split.parts = <<>> THEN <<>>
        ELSE IF split.parts[1] # s_git THEN <<>>
        ELSE git_subcommand_from(split.parts, 2)

\* C20: a command whose first segment is git and runs a subcommand outside
\* SAFE_GIT_SUBCOMMANDS is rejected, and, unless a redirect, chain, subshell
\* or background pattern rejected it first, with the subcommand error.
C20_GitOnlySafeSubcommands ==
    validation # NoValidation =>
        \A k \in 1..Len(git_subcommand_run(given_command)) :
            git_subcommand_run(given_command)[k] \notin SAFE_GIT_SUBCOMMANDS =>
                /\ ~validation.valid
                /\ check_dangerous_patterns(strip(given_command)) = NoError =>
                      validation.error.member = "GIT_SUBCOMMAND_NOT_ALLOWED"

---------------------------------------------------------------------------
(* Properties of flush_all next to the worker threads *)

\* the relationships of an export with an endpoint id that is not the
\* node_id of any node in its nodes array
Dangling(export) ==
    {i \in 1..Len(export.relationships) :
        \/ export.relationships[i].from_id \notin NodeIdsOf(export.nodes)
        \/ export.relationships[i].to_id \notin NodeIdsOf(export.nodes)}

\* An ensure_* call overlapped the flush_all call: one was in progress when
\* flush_all started or when it wrote the export, or one was made in between.
FlushOverlapped ==
    \/ flush_frame.at_start.busy
    \/ flush_frame.at_end.busy
    \/ flush_frame.at_end.calls # flush_frame.at_start.calls

---------------------------------------------------------------------------
(* Properties of the GitHub cloner *)

\* a clone_repo call has returned a CloneResult and no other call has begun
CloneJustReturned == clone_frame.pc = "idle" /\ clone_result.kind = "returned"

\* the URL is a key of state.failed
in_failed(state, github_url) == DictHas(state.failed, github_url)

\* C30: a clone_repo call runs git clone at most max_retries times and then
\* returns; when it has returned, state.in_progress is None, the URL is in
\* state.completed and not in state.failed after a success and in
\* state.failed after a failure, and no URL is in both state.completed and
\* state.failed.
C30_ReturnLeavesStateConsistent ==
    /\ clone_frame.attempts <= max_retries
    /\ CloneJustReturned =>
          /\ clone_state.in_progress = NoneValue
          /\ clone_result.success =>
                /\ in_completed(clone_state, clone_frame.github_url)
                /\ ~in_failed(clone_state, clone_frame.github_url)
          /\ ~clone_result.success => in_failed(clone_state, clone_frame.github_url)
          /\ \A github_url \in GitHubUrls :
                ~(in_completed(clone_state, github_url) /\ in_failed(clone_state, github_url))

====
